---- MODULE Spec2Model ----
(***************************************************************************)
(* Layered translation loader of MyFootballCareerSim-Language:             *)
(* deepMerge, the sanitizer, the patch validator, the interpolation cache  *)
(* and the TranslationLoader that combines them.                           *)
(*                                                                         *)
(* Representation.  A JavaScript string is a sequence of one-character     *)
(* strings.  A JavaScript value is a record [t, s, kv]: t is the type tag, *)
(* s the text of a string (or the numeral of a number, or the literal of   *)
(* a boolean), kv the entries of an object or array in insertion order,    *)
(* each entry a record [k, v] (an array's keys are its indices).           *)
(***************************************************************************)
EXTENDS Integers, Sequences, FiniteSets, TLC

VARIABLES
  config,              \* TranslationLoader.config
  bundleTranslations,  \* TranslationLoader.bundleTranslations (language -> tree)
  storage,             \* the StorageAdapter's content (key -> item)
  lastLoadedData,      \* TranslationLoader.lastLoadedData
  globalCache,         \* the interpolation engine's InterpolationCache.cache
  now,                 \* Date.now(), in ticks
  ret,                 \* the outcome of the operation that completed last
  cleared,             \* history: what the last completed clearPatches removed
  ops,                 \* history: the number of operations called so far
  call,                \* pure-function specifications: the argument
  out                  \* pure-function specifications: the result

loaderVars == <<config, bundleTranslations, storage, lastLoadedData,
                globalCache, now, ret, cleared, ops>>
pureVars == <<call, out>>
vars == <<config, bundleTranslations, storage, lastLoadedData,
          globalCache, now, ret, cleared, ops, call, out>>

----------------------------------------------------------------------------
(* Strings *)

Lowers == <<"a","b","c","d","e","f","g","h","i","j","k","l","m","n","o","p","q","r","s","t","u","v","w","x","y","z">>
Uppers == <<"A","B","C","D","E","F","G","H","I","J","K","L","M","N","O","P","Q","R","S","T","U","V","W","X","Y","Z">>
Digits == {"0","1","2","3","4","5","6","7","8","9"}

\* the regular-expression class \w
WordChars == {Lowers[i] : i \in 1..26} \cup {Uppers[i] : i \in 1..26} \cup Digits \cup {"_"}

\* the regular-expression class \s (the members the model's strings use)
SpaceChars == {" ", "\t", "\n"}

\* the class [\x00-\x08\x0B\x0C\x0E-\x1F\x7F]; "^A" stands for U+0001 and
\* "^?" for U+007F
ControlChars == {"^A", "^?"}

\* a character under the regular expressions' i flag
UpperSet == {Uppers[i] : i \in 1..26}
LowerOf == [c \in UpperSet |-> Lowers[CHOOSE i \in 1..26 : Uppers[i] = c]]
LowerChar(c) == IF c \in UpperSet THEN LowerOf[c] ELSE c

\* s has the literal lit at index i (1-based), case-sensitively
HasAt(s, i, lit) ==
  /\ i >= 1
  /\ i + Len(lit) - 1 <= Len(s)
  /\ \A j \in 1..Len(lit) : s[i + j - 1] = lit[j]

\* the same under the i flag (lit is given in lower case)
HasAtI(s, i, lit) ==
  /\ i >= 1
  /\ i + Len(lit) - 1 <= Len(s)
  /\ \A j \in 1..Len(lit) : LowerChar(s[i + j - 1]) = lit[j]

\* String.prototype.includes
Includes(s, lit) == \E i \in 1..Len(s) : HasAt(s, i, lit)

\* the index of the first occurrence of lit in s at or after index from, or 0
RECURSIVE IndexFrom(_, _, _)
IndexFrom(s, from, lit) ==
  IF from > Len(s) THEN 0
  ELSE IF HasAt(s, from, lit) THEN from
  ELSE IndexFrom(s, from + 1, lit)

\* the number of consecutive characters of class cls in s from index i on
RECURSIVE RunLen(_, _, _)
RunLen(s, i, cls) ==
  IF i <= Len(s) /\ s[i] \in cls THEN 1 + RunLen(s, i + 1, cls) ELSE 0

\* String.prototype.split on a one-character separator
RECURSIVE SplitFrom(_, _, _)
SplitFrom(s, i, sep) ==
  LET stop == IF \E j \in i..Len(s) : s[j] = sep
              THEN CHOOSE j \in i..Len(s) :
                     s[j] = sep /\ \A h \in i..(j - 1) : s[h] # sep
              ELSE 0
  IN IF stop = 0
     THEN <<SubSeq(s, i, Len(s))>>
     ELSE <<SubSeq(s, i, stop - 1)>> \o SplitFrom(s, stop + 1, sep)

Split(s, sep) == SplitFrom(s, 1, sep)

----------------------------------------------------------------------------
(* JavaScript values *)

Undefined == [t |-> "undefined", s |-> <<>>, kv |-> <<>>]
Null == [t |-> "null", s |-> <<>>, kv |-> <<>>]
Str(s) == [t |-> "string", s |-> s, kv |-> <<>>]
Num(numeral) == [t |-> "number", s |-> numeral, kv |-> <<>>]
Bool(literal) == [t |-> "boolean", s |-> literal, kv |-> <<>>]
Obj(entries) == [t |-> "object", s |-> <<>>, kv |-> entries]
Arr(entries) == [t |-> "array", s |-> <<>>, kv |-> entries]
BigInt(numeral) == [t |-> "bigint", s |-> numeral, kv |-> <<>>]
Entry(k, v) == [k |-> k, v |-> v]

EmptyObject == Obj(<<>>)

\* typeof v === 'object' (true of null and of arrays too)
TypeofObject(v) == v.t \in {"object", "array", "null"}

\* JavaScript truthiness
Truthy(v) ==
  CASE v.t \in {"undefined", "null"} -> FALSE
    [] v.t = "string" -> Len(v.s) > 0
    [] v.t = "number" -> v.s # <<"0">>
    [] v.t = "boolean" -> v.s = <<"t","r","u","e">>
    [] OTHER -> TRUE

\* key in v, for an object or an array
HasKey(v, k) == \E i \in 1..Len(v.kv) : v.kv[i].k = k

\* v[k]: undefined when v has no such key
Get(v, k) ==
  IF HasKey(v, k)
  THEN v.kv[CHOOSE i \in 1..Len(v.kv) : v.kv[i].k = k].v
  ELSE Undefined

\* v[k] = x on an object: in place when the key exists, appended otherwise
Put(v, k, x) ==
  IF HasKey(v, k)
  THEN [v EXCEPT !.kv = [i \in 1..Len(v.kv) |->
                           IF v.kv[i].k = k THEN Entry(k, x) ELSE v.kv[i]]]
  ELSE [v EXCEPT !.kv = Append(v.kv, Entry(k, x))]

----------------------------------------------------------------------------
(* deepMerge.ts *)

isPlainObject(value) == value.t = "object"

RECURSIVE DeepMerge(_, _)
RECURSIVE MergeSources(_, _, _)
RECURSIVE MergeKeys(_, _, _)
RECURSIVE MergeKeysShallow(_, _, _)

\* the loop over Object.keys(source) with every value assigned outright
MergeKeysShallow(result, source, i) ==
  IF i > Len(source.kv) THEN result
  ELSE IF source.kv[i].v.t = "undefined" THEN MergeKeysShallow(result, source, i + 1)
  ELSE MergeKeysShallow(Put(result, source.kv[i].k, source.kv[i].v), source, i + 1)

\* the loop over Object.keys(source), from entry i on
MergeKeys(result, source, i) ==
  IF i > Len(source.kv) THEN result
  ELSE LET key == source.kv[i].k
           sourceValue == source.kv[i].v
           targetValue == Get(result, key)
       IN IF sourceValue.t = "undefined"
          THEN MergeKeys(result, source, i + 1)
          ELSE IF isPlainObject(targetValue) /\ isPlainObject(sourceValue)
          THEN MergeKeys(Put(result, key, DeepMerge(targetValue, <<sourceValue>>)),
                         source, i + 1)
          ELSE MergeKeys(Put(result, key, sourceValue), source, i + 1)

\* the loop over the sources stopped after the first source
MergeSourcesFirstOnly(result, sources, n) ==
  IF n > Len(sources) \/ ~isPlainObject(sources[n]) THEN result
  ELSE MergeKeys(result, sources[n], 1)

\* the loop over the sources, from source n on
MergeSources(result, sources, n) ==
  IF n > Len(sources) THEN result
  ELSE IF ~isPlainObject(sources[n])
       THEN MergeSources(result, sources, n + 1)
       ELSE MergeSources(MergeKeys(result, sources[n], 1), sources, n + 1)

\* deepMerge with its result started from {} instead of { ...target }
DeepMergeFromEmpty(target, sources) ==
  IF Len(sources) = 0 THEN target
  ELSE MergeSources(EmptyObject, sources, 1)

\* deepMerge(target, ...sources); { ...target } keeps target's entries
DeepMerge(target, sources) ==
  IF Len(sources) = 0 THEN target
  ELSE MergeSources(Obj(target.kv), sources, 1)

\* the object deepMerge returns is its target itself (return target) and not
\* the object it creates (const result = { ...target })
ReturnsTarget(target, sources) == Len(sources) = 0

\* layers.reduce((acc, layer) => deepMerge(acc, layer), {})
RECURSIVE ReduceMerge(_, _, _)
ReduceMerge(acc, layers, n) ==
  IF n > Len(layers) THEN acc
  ELSE ReduceMerge(DeepMerge(acc, <<layers[n]>>), layers, n + 1)

\* the loop of getNestedValue over the path's keys
RECURSIVE WalkKeys(_, _, _)
WalkKeys(current, keys, n) ==
  IF n > Len(keys) THEN current
  ELSE IF current.t \in {"null", "undefined"} THEN Undefined
  ELSE IF ~TypeofObject(current) THEN Undefined
  ELSE WalkKeys(Get(current, keys[n]), keys, n + 1)

getNestedValue(obj, path) == WalkKeys(obj, Split(path, "."), 1)

----------------------------------------------------------------------------
(* sanitize.ts *)

MAX_STRING_LENGTH == 2000
MAX_NESTING_DEPTH == 10
MAX_KEY_LENGTH == 100

\* the index of the first occurrence of lit in s at or after from under the
\* i flag, or 0
\* IndexFrom under the i flag
RECURSIVE IndexFromI(_, _, _)
IndexFromI(s, from, lit) ==
  IF from > Len(s) THEN 0
  ELSE IF HasAtI(s, from, lit) THEN from
  ELSE IndexFromI(s, from + 1, lit)

\* the index after a run of \s* that starts at index i
SkipSpaces(s, i) == i + RunLen(s, i, SpaceChars)

\* the index after ['"]? at index i
SkipQuote(s, i) == IF i <= Len(s) /\ s[i] \in {"'", "\""} THEN i + 1 ELSE i

\* the length of a match that starts at i and ends with the character c at
\* index pos, 0 when c is not there
EndsWithChar(s, i, pos, c) == IF pos <= Len(s) /\ s[pos] = c THEN pos + 1 - i ELSE 0

\* the same for a match that ends with the literal lit (under the i flag)
EndsWithLiteral(s, i, pos, lit) == IF HasAtI(s, pos, lit) THEN pos + Len(lit) - i ELSE 0

\* the length of a match that starts at i and ends with the occurrence of a
\* closing literal found at index at, 0 when none was found
EndsAtFound(i, at, close) == IF at = 0 THEN 0 ELSE at + Len(close) - i

\* DANGEROUS_PATTERNS, in the order of the array
DANGEROUS_PATTERNS ==
  <<"script", "javascript", "vbscript", "on", "data", "expression", "iframe",
    "object", "embed", "link", "meta", "style", "url", "comment">>

\* /<script\b[^<]*(?:(?!<\/script>)<[^<]*)*<\/script>/gi: from "<script" at
\* a word boundary to the first "</script>" after it
MatchScript(s, i) ==
  IF HasAtI(s, i, <<"<","s","c","r","i","p","t">>)
     /\ (i + 7 > Len(s) \/ s[i + 7] \notin WordChars)
  THEN EndsAtFound(i, IndexFromI(s, i + 7, <<"<","/","s","c","r","i","p","t",">">>),
                   <<"<","/","s","c","r","i","p","t",">">>)
  ELSE 0

\* a pattern that is one literal under the i flag
MatchLiteral(s, i, lit) == IF HasAtI(s, i, lit) THEN Len(lit) ELSE 0

\* /on\w+\s*=/gi
MatchOn(s, i) ==
  IF HasAtI(s, i, <<"o","n">>) /\ RunLen(s, i + 2, WordChars) >= 1
  THEN EndsWithChar(s, i, SkipSpaces(s, i + 2 + RunLen(s, i + 2, WordChars)), "=")
  ELSE 0

\* /data:\s*text\/html/gi
MatchData(s, i) ==
  IF HasAtI(s, i, <<"d","a","t","a",":">>)
  THEN EndsWithLiteral(s, i, SkipSpaces(s, i + 5), <<"t","e","x","t","/","h","t","m","l">>)
  ELSE 0

\* /expression\s*\(/gi
MatchExpression(s, i) ==
  IF HasAtI(s, i, <<"e","x","p","r","e","s","s","i","o","n">>)
  THEN EndsWithChar(s, i, SkipSpaces(s, i + 10), "(")
  ELSE 0

\* /url\s*\(\s*['"]?\s*javascript:/gi
MatchUrl(s, i) ==
  IF HasAtI(s, i, <<"u","r","l">>) /\ EndsWithChar(s, i, SkipSpaces(s, i + 3), "(") > 0
  THEN EndsWithLiteral(
         s, i, SkipSpaces(s, SkipQuote(s, SkipSpaces(s, SkipSpaces(s, i + 3) + 1))),
         <<"j","a","v","a","s","c","r","i","p","t",":">>)
  ELSE 0

\* /<!--[\s\S]*?-->/g: from "<!--" to the first "-->" after it
MatchComment(s, i) ==
  IF HasAt(s, i, <<"<","!","-","-">>)
  THEN EndsAtFound(i, IndexFrom(s, i + 4, <<"-","-",">">>), <<"-","-",">">>)
  ELSE 0

\* /<[^>]*>/g of stripHtmlTags
MatchTag(s, i) ==
  IF i <= Len(s) /\ s[i] = "<"
  THEN EndsAtFound(i, IndexFrom(s, i + 1, <<">">>), <<">">>)
  ELSE 0

\* the length of the match of pattern p that starts at index i of s, 0 if none
MatchLen(p, s, i) ==
  CASE p = "script" -> MatchScript(s, i)
    [] p = "javascript" -> MatchLiteral(s, i, <<"j","a","v","a","s","c","r","i","p","t",":">>)
    [] p = "vbscript" -> MatchLiteral(s, i, <<"v","b","s","c","r","i","p","t",":">>)
    [] p = "on" -> MatchOn(s, i)
    [] p = "data" -> MatchData(s, i)
    [] p = "expression" -> MatchExpression(s, i)
    [] p = "iframe" -> MatchLiteral(s, i, <<"<","i","f","r","a","m","e">>)
    [] p = "object" -> MatchLiteral(s, i, <<"<","o","b","j","e","c","t">>)
    [] p = "embed" -> MatchLiteral(s, i, <<"<","e","m","b","e","d">>)
    [] p = "link" -> MatchLiteral(s, i, <<"<","l","i","n","k">>)
    [] p = "meta" -> MatchLiteral(s, i, <<"<","m","e","t","a">>)
    [] p = "style" -> MatchLiteral(s, i, <<"<","s","t","y","l","e">>)
    [] p = "url" -> MatchUrl(s, i)
    [] p = "comment" -> MatchComment(s, i)
    [] p = "tag" -> MatchTag(s, i)

\* s.replace(pattern, ''), pattern global: the matches are found left to
\* right, each search resuming where the previous match ended
RECURSIVE RemoveAll(_, _, _)
RemoveAll(p, s, i) ==
  IF i > Len(s) THEN <<>>
  ELSE IF MatchLen(p, s, i) > 0 THEN RemoveAll(p, s, i + MatchLen(p, s, i))
  ELSE <<s[i]>> \o RemoveAll(p, s, i + 1)

RECURSIVE RemovePatternsFrom(_, _)
RemovePatternsFrom(s, n) ==
  IF n > Len(DANGEROUS_PATTERNS) THEN s
  ELSE RemovePatternsFrom(RemoveAll(DANGEROUS_PATTERNS[n], s, 1), n + 1)

removeDangerousPatterns(str) == RemovePatternsFrom(str, 1)

stripHtmlTags(str) == RemoveAll("tag", str, 1)

\* String.prototype.trim
Trim(s) ==
  IF \A i \in 1..Len(s) : s[i] \in SpaceChars THEN <<>>
  ELSE LET first == CHOOSE i \in 1..Len(s) :
                      s[i] \notin SpaceChars /\ \A j \in 1..(i - 1) : s[j] \in SpaceChars
           last == CHOOSE i \in 1..Len(s) :
                     s[i] \notin SpaceChars /\ \A j \in (i + 1)..Len(s) : s[j] \in SpaceChars
       IN SubSeq(s, first, last)

\* sanitizeString(value, { maxLength }): the other options keep their defaults
\* (stripHtml, removeControlChars) at every call of the repository
\* the steps of sanitizeString before the truncation
CleanString(value) ==
  LET noDanger == removeDangerousPatterns(value)
      noTags == stripHtmlTags(noDanger)
      noControl == SelectSeq(noTags, LAMBDA c : c \notin ControlChars)
  IN Trim(noControl)

\* CleanString tabled, once, for the keys and leaves of the documents the
\* loader is run with; any other string is cleaned when it is met
TabledStrings ==
  { <<"t","i","e","r">>, <<"u","i">>, <<"c","o","r","e">>, <<"a">>, <<"b">>, <<"x">>,
    <<"1">>, <<"2">>, <<"3">>, <<"4">>, <<"5">>, <<"6">>, <<"9">>,
    <<" ","6","<","b",">">> }
CleanTable == [s \in TabledStrings |-> CleanString(s)]

\* the truncation that ends sanitizeString
Truncate(str, maxLength) ==
  IF Len(str) > maxLength THEN SubSeq(str, 1, maxLength) ELSE str

sanitizeString(value, maxLength) ==
  Truncate(IF value \in TabledStrings THEN CleanTable[value] ELSE CleanString(value),
           maxLength)

RECURSIVE sanitizeObject(_, _)
RECURSIVE SanitizeEntries(_, _, _, _)

\* if (sanitizedKey) result[sanitizedKey] = sanitizedValue
PutSanitized(result, sanitizedKey, sanitizedValue) ==
  IF Len(sanitizedKey) = 0 THEN result ELSE Put(result, sanitizedKey, sanitizedValue)

\* the loop over Object.entries(obj), from entry i on
SanitizeEntries(result, obj, i, depth) ==
  IF i > Len(obj.kv) THEN result
  ELSE SanitizeEntries(
         PutSanitized(result, sanitizeString(obj.kv[i].k, MAX_KEY_LENGTH),
                      sanitizeObject(obj.kv[i].v, depth + 1)),
         obj, i + 1, depth)

sanitizeObject(obj, depth) ==
  IF depth > MAX_NESTING_DEPTH THEN Null
  ELSE CASE obj.t \in {"null", "undefined"} -> obj
         [] obj.t = "string" -> Str(sanitizeString(obj.s, MAX_STRING_LENGTH))
         [] obj.t \in {"number", "boolean"} -> obj
         [] obj.t = "array" ->
              Arr([i \in 1..Len(obj.kv) |->
                     Entry(obj.kv[i].k, sanitizeObject(obj.kv[i].v, depth + 1))])
         [] obj.t = "object" -> SanitizeEntries(EmptyObject, obj, 1, depth)
         [] OTHER -> Null

\* Object.keys(sanitized).length === 0 ? null : sanitized
NullIfEmpty(sanitized) ==
  IF ~Truthy(sanitized) \/ Len(sanitized.kv) = 0 THEN Null ELSE sanitized

\* sanitizePatch: null when the patch is no object or is empty once sanitized
sanitizePatch(patch) ==
  IF ~Truthy(patch) \/ ~TypeofObject(patch) \/ patch.t = "array" THEN Null
  ELSE NullIfEmpty(sanitizeObject(patch, 0))

ProtectedNamespaces ==
  { <<"s","y","s","t","e","m">>,
    <<"c","o","r","e">>,
    <<"a","t","t","r","i","b","u","t","e","s">>,
    <<"t","r","a","i","n","i","n","g">>,
    <<"s","e","t","u","p">>,
    <<"p","o","s","i","t","i","o","n","s">>,
    <<"c","o","m","m","o","n">>,
    <<"p","r","o","f","i","l","e">>,
    <<"s","t","a","t","s">>,
    <<"d","e","t","a","i","l","e","d","S","t","a","t","s">>,
    <<"c","a","r","e","e","r","S","t","a","t","s">> }

isProtectedNamespace(namespace) == namespace \in ProtectedNamespaces

filterProtectedNamespaces(patch) ==
  Obj(SelectSeq(patch.kv, LAMBDA e : ~isProtectedNamespace(e.k)))

----------------------------------------------------------------------------
(* schema.ts *)

PATCHABLE_NAMESPACES ==
  { <<"l","e","a","g","u","e","s">>,
    <<"c","u","p","s">>,
    <<"c","o","m","p","e","t","i","t","i","o","n","N","a","m","e","s">>,
    <<"c","o","m","p","e","t","i","t","i","o","n">>,
    <<"t","r","o","p","h","y">>,
    <<"t","r","o","p","h","i","e","s">>,
    <<"t","r","o","p","h","i","e","s","S","e","c","t","i","o","n">>,
    <<"a","w","a","r","d">>,
    <<"a","w","a","r","d","s","S","e","c","t","i","o","n">>,
    <<"a","w","a","r","d","G","r","o","u","p","s">>,
    <<"c","o","u","n","t","r","i","e","s">>,
    <<"n","a","t","i","o","n","a","l","i","t","y">>,
    <<"c","o","n","t","i","n","e","n","t","s">>,
    <<"t","i","e","r">>,
    <<"c","a","r","e","e","r","T","i","e","r","s">> }

MAX_NAME_LENGTH == 100
MAX_DESCRIPTION_LENGTH == 500
MAX_VALUE_LENGTH == 2000
MAX_PATCH_SIZE == 5242880
WARN_PATCH_SIZE == 1048576

K_metadata == <<"m","e","t","a","d","a","t","a">>
K_universal == <<"u","n","i","v","e","r","s","a","l">>
K_languages == <<"l","a","n","g","u","a","g","e","s">>
K_version == <<"v","e","r","s","i","o","n">>
K_name == <<"n","a","m","e">>
K_author == <<"a","u","t","h","o","r">>
K_description == <<"d","e","s","c","r","i","p","t","i","o","n">>

\* VERSION_REGEX.test(s), /^\d+\.\d+\.\d+(-[\w.]+)?$/
VERSION_REGEX_test(s) ==
  LET d1 == RunLen(s, 1, Digits)
      p1 == 1 + d1
      d2 == RunLen(s, p1 + 1, Digits)
      p2 == p1 + 1 + d2
      d3 == RunLen(s, p2 + 1, Digits)
      rest == p2 + 1 + d3
  IN /\ d1 >= 1
     /\ p1 <= Len(s) /\ s[p1] = "."
     /\ d2 >= 1
     /\ p2 <= Len(s) /\ s[p2] = "."
     /\ d3 >= 1
     /\ \/ rest = Len(s) + 1
        \/ /\ rest <= Len(s) /\ s[rest] = "-"
           /\ RunLen(s, rest + 1, WordChars \cup {"."}) >= 1
           /\ rest + 1 + RunLen(s, rest + 1, WordChars \cup {"."}) = Len(s) + 1

\* an entry of ValidationResult.errors; the message is a fixed text per code
\* (with the namespace's name for PROTECTED_NAMESPACE) and is left out
Error(path, code) == [path |-> path, code |-> code]

\* the errors and warnings arrays the validate* functions append to; a
\* warning is its fixed text and the path the text ends with, if any
NoProblems == [errors |-> <<>>, warnings |-> <<>>]
PushError(acc, path, code) == [acc EXCEPT !.errors = Append(@, Error(path, code))]
Warning(text, path) == [text |-> text, path |-> path]
PushWarning(acc, text, path) == [acc EXCEPT !.warnings = Append(@, Warning(text, path))]

validateMetadata(metadata, acc) ==
  IF ~Truthy(metadata) \/ ~TypeofObject(metadata)
  THEN PushError(acc, K_metadata, "MISSING_METADATA")
  ELSE LET version == Get(metadata, K_version)
           name == Get(metadata, K_name)
           author == Get(metadata, K_author)
           description == Get(metadata, K_description)
           a1 == IF version.t # "string"
                 THEN PushError(acc, K_metadata \o <<".">> \o K_version, "INVALID_VERSION")
                 ELSE IF ~VERSION_REGEX_test(version.s)
                 THEN PushError(acc, K_metadata \o <<".">> \o K_version,
                                "INVALID_VERSION_FORMAT")
                 ELSE acc
           a2 == IF name.t # "string" \/ Len(name.s) = 0
                 THEN PushError(a1, K_metadata \o <<".">> \o K_name, "INVALID_NAME")
                 ELSE IF Len(name.s) > MAX_NAME_LENGTH
                 THEN PushError(a1, K_metadata \o <<".">> \o K_name, "NAME_TOO_LONG")
                 ELSE a1
           a3 == IF author.t # "undefined" /\ author.t # "string"
                 THEN PushWarning(a2, "Author should be a string", <<>>)
                 ELSE a2
       IN IF description.t = "undefined" THEN a3
          ELSE IF description.t # "string"
          THEN PushWarning(a3, "Description should be a string", <<>>)
          ELSE IF Len(description.s) > MAX_DESCRIPTION_LENGTH
          THEN PushWarning(a3, "Description is very long, consider shortening", <<>>)
          ELSE a3

RECURSIVE validateNamespaceContent(_, _, _, _)
\* the loop over Object.entries(content), from entry i on
validateNamespaceContent(content, basePath, acc, i) ==
  IF i > Len(content.kv) THEN acc
  ELSE LET keyPath == basePath \o <<".">> \o content.kv[i].k
           value == content.kv[i].v
           next ==
             IF value.t = "string"
             THEN IF Len(value.s) = 0 THEN PushWarning(acc, "Empty string at", keyPath)
                  ELSE IF Len(value.s) > MAX_VALUE_LENGTH
                  THEN PushError(acc, keyPath, "STRING_TOO_LONG")
                  ELSE acc
             ELSE IF TypeofObject(value) /\ value.t # "null"
             THEN validateNamespaceContent(value, keyPath, acc, 1)
             ELSE IF value.t # "null" /\ value.t # "undefined"
             THEN PushError(acc, keyPath, "INVALID_VALUE_TYPE")
             ELSE acc
       IN validateNamespaceContent(content, basePath, next, i + 1)

RECURSIVE ValidateNamespaces(_, _, _, _)
\* the loop of validateContentSection over Object.entries(contentObj)
ValidateNamespaces(contentObj, path, acc, i) ==
  IF i > Len(contentObj.kv) THEN acc
  ELSE LET namespace == contentObj.kv[i].k
           values == contentObj.kv[i].v
           namespacePath == path \o <<".">> \o namespace
           next ==
             IF namespace \notin PATCHABLE_NAMESPACES
             THEN PushError(acc, namespacePath, "PROTECTED_NAMESPACE")
             ELSE IF ~Truthy(values) \/ ~TypeofObject(values)
             THEN PushError(acc, namespacePath, "INVALID_NAMESPACE_VALUE")
             ELSE validateNamespaceContent(values, namespacePath, acc, 1)
       IN ValidateNamespaces(contentObj, path, next, i + 1)

\* validateContentSection returning before its loop
validateContentSectionSkipped(content, path, acc) == acc

validateContentSection(content, path, acc) ==
  IF ~Truthy(content) \/ ~TypeofObject(content) THEN acc
  ELSE ValidateNamespaces(content, path, acc, 1)

RECURSIVE ValidateLanguages(_, _, _)
\* the loop of validatePatch over Object.entries(patchObj.languages)
ValidateLanguages(languages, acc, i) ==
  IF i > Len(languages.kv) THEN acc
  ELSE ValidateLanguages(
         languages,
         validateContentSection(languages.kv[i].v,
                                K_languages \o <<".">> \o languages.kv[i].k, acc),
         i + 1)

----------------------------------------------------------------------------
(* JSON *)

\* the length JSON.stringify gives one character inside a string literal
JsonCharLength(c) ==
  IF c \in {"\"", "\\", "\n", "\t"} THEN 2
  ELSE IF c \in ControlChars THEN 6
  ELSE 1

\* the sum of JsonCharLength over the characters of s
SumCharLengths(s) ==
  Len(s) + Cardinality({i \in 1..Len(s) : JsonCharLength(s[i]) = 2})
         + 5 * Cardinality({i \in 1..Len(s) : JsonCharLength(s[i]) = 6})

JsonStringLength(s) == 2 + SumCharLengths(s)

\* JSON.stringify throws a TypeError on a BigInt anywhere in the value
RECURSIVE JsonThrows(_)
JsonThrows(v) ==
  \/ v.t = "bigint"
  \/ \E i \in 1..Len(v.kv) : JsonThrows(v.kv[i].v)

\* what JSON.stringify keeps of a value: an object's undefined members are
\* left out and an array's undefined elements become null
RECURSIVE JsonNormal(_)
JsonNormal(v) ==
  CASE v.t = "object" ->
         Obj([i \in 1..Len(SelectSeq(v.kv, LAMBDA e : e.v.t # "undefined")) |->
                LET e == SelectSeq(v.kv, LAMBDA x : x.v.t # "undefined")[i]
                IN Entry(e.k, JsonNormal(e.v))])
    [] v.t = "array" ->
         Arr([i \in 1..Len(v.kv) |->
                Entry(v.kv[i].k,
                      IF v.kv[i].v.t = "undefined" THEN Null
                      ELSE JsonNormal(v.kv[i].v))])
    [] OTHER -> v

\* JSON.stringify(v).length, for v without undefined members (JsonNormal)
RECURSIVE JsonLength(_)
RECURSIVE SumEntryLengths(_, _)
SumEntryLengths(v, i) ==
  IF i > Len(v.kv) THEN 0
  ELSE (IF i > 1 THEN 1 ELSE 0)
       + (IF v.t = "object" THEN JsonStringLength(v.kv[i].k) + 1 ELSE 0)
       + JsonLength(v.kv[i].v)
       + SumEntryLengths(v, i + 1)

JsonLength(v) ==
  CASE v.t = "string" -> JsonStringLength(v.s)
    [] v.t \in {"number", "boolean"} -> Len(v.s)
    [] v.t = "null" -> 4
    [] v.t \in {"object", "array"} -> 2 + SumEntryLengths(v, 1)

\* a stored text: the JSON text of a value, or the decimal text of a number
JsonText(v) == [kind |-> "json", value |-> JsonNormal(v), n |-> 0]
NumberText(n) == [kind |-> "number", value |-> Null, n |-> n]

\* a stored text that is no JSON text and no number: JSON.parse throws on it
GarbageText == [kind |-> "garbage", value |-> Null, n |-> 0]

JSON_stringify(v) == JsonText(v)
JSON_parse(text) == text.value

----------------------------------------------------------------------------
(* schema.ts: validatePatch *)

\* the ValidationResult; threw is set when the call ends in an exception
\* instead (JSON.stringify in the size check)
ValidationResult(acc) ==
  [valid |-> Len(acc.errors) = 0, errors |-> acc.errors,
   warnings |-> acc.warnings, threw |-> FALSE]

\* the check of patch.universal
ValidateUniversal(universal, acc) ==
  IF universal.t = "undefined" THEN acc
  ELSE IF ~TypeofObject(universal) \/ universal.t = "null"
  THEN PushError(acc, K_universal, "INVALID_UNIVERSAL")
  ELSE validateContentSection(universal, K_universal, acc)

\* the check of patch.languages
ValidateLanguagesSection(languages, acc) ==
  IF languages.t = "undefined" THEN acc
  ELSE IF ~TypeofObject(languages) \/ languages.t = "null"
  THEN PushError(acc, K_languages, "INVALID_LANGUAGES")
  ELSE ValidateLanguages(languages, acc, 1)

\* at least one of universal and languages must be there
ValidateHasContent(universal, languages, acc) ==
  IF universal.t = "undefined" /\ languages.t = "undefined"
  THEN PushError(acc, <<>>, "NO_CONTENT")
  ELSE acc

\* the size check on JSON.stringify(patch).length
ValidateSize(jsonSize, acc) ==
  IF jsonSize > MAX_PATCH_SIZE
  THEN PushError(acc, <<>>, "PATCH_TOO_LARGE")
  ELSE IF jsonSize > WARN_PATCH_SIZE
  THEN PushWarning(acc, "Patch is larger than 1MB", <<>>)
  ELSE acc

\* the errors and warnings collected before the size check
ValidateSections(patch) ==
  ValidateHasContent(
    Get(patch, K_universal), Get(patch, K_languages),
    ValidateLanguagesSection(
      Get(patch, K_languages),
      ValidateUniversal(Get(patch, K_universal),
                        validateMetadata(Get(patch, K_metadata), NoProblems))))

validatePatch(patch) ==
  IF ~Truthy(patch) \/ ~TypeofObject(patch) \/ patch.t = "array"
  THEN [valid |-> FALSE, errors |-> <<Error(<<>>, "INVALID_PATCH_TYPE")>>,
        warnings |-> <<>>, threw |-> FALSE]
  ELSE IF JsonThrows(patch)
  THEN [valid |-> FALSE, errors |-> <<>>, warnings |-> <<>>, threw |-> TRUE]
  ELSE ValidationResult(ValidateSize(JsonLength(JsonNormal(patch)),
                                     ValidateSections(patch)))

----------------------------------------------------------------------------
(* interpolate.ts *)

GLOBAL_CACHE_MAX_SIZE == 2000

\* String(v)
RECURSIVE StringOf(_)
RECURSIVE JoinFrom(_, _)
JoinFrom(v, i) ==
  IF i > Len(v.kv) THEN <<>>
  ELSE (IF i > 1 THEN <<",">> ELSE <<>>)
       \o (IF v.kv[i].v.t \in {"null", "undefined"} THEN <<>> ELSE StringOf(v.kv[i].v))
       \o JoinFrom(v, i + 1)

StringOf(v) ==
  CASE v.t \in {"string", "number", "boolean", "bigint"} -> v.s
    [] v.t = "null" -> <<"n","u","l","l">>
    [] v.t = "undefined" -> <<"u","n","d","e","f","i","n","e","d">>
    [] v.t = "array" -> JoinFrom(v, 1)
    [] v.t = "object" ->
         <<"[","o","b","j","e","c","t"," ","O","b","j","e","c","t","]">>

\* a.localeCompare(b) < 0 for keys of lower-case letters
CharRank(c) ==
  IF \E i \in 1..26 : Lowers[i] = c THEN CHOOSE i \in 1..26 : Lowers[i] = c ELSE 0

RECURSIVE ComesBefore(_, _, _)
ComesBefore(a, b, i) ==
  IF i > Len(b) THEN FALSE
  ELSE IF i > Len(a) THEN TRUE
  ELSE IF CharRank(a[i]) # CharRank(b[i]) THEN CharRank(a[i]) < CharRank(b[i])
  ELSE ComesBefore(a, b, i + 1)

\* entries.sort(([a], [b]) => a.localeCompare(b)): a stable insertion sort
RECURSIVE InsertSorted(_, _)
InsertSorted(sorted, e) ==
  IF Len(sorted) = 0 THEN <<e>>
  ELSE IF ComesBefore(e.k, sorted[Len(sorted)].k, 1)
       THEN Append(InsertSorted(SubSeq(sorted, 1, Len(sorted) - 1), e),
                   sorted[Len(sorted)])
       ELSE Append(sorted, e)

RECURSIVE SortEntries(_, _)
SortEntries(entries, n) ==
  IF n = 0 THEN <<>> ELSE InsertSorted(SortEntries(entries, n - 1), entries[n])

RECURSIVE JoinContext(_, _)
JoinContext(entries, i) ==
  IF i > Len(entries) THEN <<>>
  ELSE (IF i > 1 THEN <<"|">> ELSE <<>>)
       \o entries[i].k \o <<":">> \o StringOf(entries[i].v)
       \o JoinContext(entries, i + 1)

\* InterpolationCache.generateKey
generateKey(template, context) ==
  template \o <<":", ":">> \o JoinContext(SortEntries(context.kv, Len(context.kv)), 1)

\* Map.prototype.get/delete/set on the cache, a sequence of [k, v] in
\* insertion order
MapHas(m, key) == \E i \in 1..Len(m) : m[i].k = key
MapGet(m, key) == m[CHOOSE i \in 1..Len(m) : m[i].k = key].v
MapDelete(m, key) == SelectSeq(m, LAMBDA e : e.k # key)
MapSet(m, key, value) ==
  IF MapHas(m, key)
  THEN [i \in 1..Len(m) |-> IF m[i].k = key THEN Entry(key, value) ELSE m[i]]
  ELSE Append(m, Entry(key, value))

\* InterpolationCache.get leaving a hit where it was inserted
CacheAfterGetInPlace(m, template, context) == m

\* InterpolationCache.get without the re-insertion after the delete
CacheAfterGetDropped(m, template, context) ==
  MapDelete(m, generateKey(template, context))

\* InterpolationCache.get: the cache after the call (a hit moves to the end)
CacheAfterGet(m, template, context) ==
  LET key == generateKey(template, context)
  IN IF MapHas(m, key) THEN MapSet(MapDelete(m, key), key, MapGet(m, key)) ELSE m

\* InterpolationCache.set
CacheSet(m, maxSize, template, context, value) ==
  LET key == generateKey(template, context)
      room == IF Len(m) >= maxSize /\ Len(m[1].k) > 0 THEN MapDelete(m, m[1].k) ELSE m
  IN MapSet(room, key, value)

RefChars == WordChars \cup {"."}

\* REF_PATTERN /\{\{ref:([a-zA-Z0-9_.]+)\}\}/g at index i: the length of the
\* path, or 0
MatchRef(s, i) ==
  LET head == <<"{","{","r","e","f",":">>
  IN IF HasAt(s, i, head)
     THEN LET n == RunLen(s, i + Len(head), RefChars)
          IN IF n >= 1 /\ HasAt(s, i + Len(head) + n, <<"}","}">>) THEN n ELSE 0
     ELSE 0

\* the replacement emitting String(value) for a target that is no string
RECURSIVE ReplaceRefsStringified(_, _, _)
ReplaceRefsStringified(s, i, translations) ==
  IF i > Len(s) THEN <<>>
  ELSE IF MatchRef(s, i) = 0
  THEN <<s[i]>> \o ReplaceRefsStringified(s, i + 1, translations)
  ELSE StringOf(getNestedValue(translations, SubSeq(s, i + 6, i + 5 + MatchRef(s, i))))
       \o ReplaceRefsStringified(s, i + 6 + MatchRef(s, i) + 2, translations)

RECURSIVE ReplaceRefs(_, _, _)
ReplaceRefs(s, i, translations) ==
  IF i > Len(s) THEN <<>>
  ELSE LET n == MatchRef(s, i)
       IN IF n = 0 THEN <<s[i]>> \o ReplaceRefs(s, i + 1, translations)
          ELSE LET path == SubSeq(s, i + 6, i + 5 + n)
                   value == getNestedValue(translations, path)
               IN (IF value.t = "string" THEN value.s ELSE <<"[">> \o path \o <<"]">>)
                  \o ReplaceRefs(s, i + 6 + n + 2, translations)

resolveReferences(template, translations) ==
  IF ~Includes(template, <<"{","{","r","e","f",":">>) THEN template
  ELSE ReplaceRefs(template, 1, translations)

\* PLURAL_PATTERN /\{\{plural:(\w+)\|([^|]+)\|([^}]+)\}\}/g at index i: the
\* lengths of the three groups, or <<0, 0, 0>>
MatchPlural(s, i) ==
  LET head == <<"{","{","p","l","u","r","a","l",":">>
      all == {s[j] : j \in 1..Len(s)}
  IN IF HasAt(s, i, head)
     THEN LET k == RunLen(s, i + Len(head), WordChars)
              bar1 == i + Len(head) + k
              one == RunLen(s, bar1 + 1, all \ {"|"})
              bar2 == bar1 + 1 + one
              many == RunLen(s, bar2 + 1, all \ {"}"})
              close == bar2 + 1 + many
          IN IF /\ k >= 1 /\ bar1 <= Len(s) /\ s[bar1] = "|"
                /\ one >= 1 /\ bar2 <= Len(s) /\ s[bar2] = "|"
                /\ many >= 1 /\ HasAt(s, close, <<"}","}">>)
             THEN <<k, one, many>>
             ELSE <<0, 0, 0>>
     ELSE <<0, 0, 0>>

RECURSIVE ReplacePlurals(_, _, _)
ReplacePlurals(s, i, context) ==
  IF i > Len(s) THEN <<>>
  ELSE LET m == MatchPlural(s, i)
       IN IF m[1] = 0 THEN <<s[i]>> \o ReplacePlurals(s, i + 1, context)
          ELSE LET countKey == SubSeq(s, i + 9, i + 8 + m[1])
                   singular == SubSeq(s, i + 10 + m[1], i + 9 + m[1] + m[2])
                   plural == SubSeq(s, i + 11 + m[1] + m[2], i + 10 + m[1] + m[2] + m[3])
                   count == Get(context, countKey)
               IN (IF count.t # "number" THEN singular
                   ELSE IF count.s = <<"1">> THEN singular ELSE plural)
                  \o ReplacePlurals(s, i + 13 + m[1] + m[2] + m[3], context)

resolvePlurals(template, context) ==
  IF ~Includes(template, <<"{","{","p","l","u","r","a","l",":">>) THEN template
  ELSE ReplacePlurals(template, 1, context)

\* VAR_PATTERN /\{(\w+)\}/g at index i: the length of the name, or 0
MatchVar(s, i) ==
  IF i <= Len(s) /\ s[i] = "{"
  THEN LET n == RunLen(s, i + 1, WordChars)
       IN IF n >= 1 /\ i + 1 + n <= Len(s) /\ s[i + 1 + n] = "}" THEN n ELSE 0
  ELSE 0

RECURSIVE ReplaceVars(_, _, _)
ReplaceVars(s, i, context) ==
  IF i > Len(s) THEN <<>>
  ELSE LET n == MatchVar(s, i)
       IN IF n = 0 THEN <<s[i]>> \o ReplaceVars(s, i + 1, context)
          ELSE LET value == Get(context, SubSeq(s, i + 1, i + n))
               IN (IF value.t \in {"undefined", "null"} THEN SubSeq(s, i, i + n + 1)
                   ELSE StringOf(value))
                  \o ReplaceVars(s, i + n + 2, context)

resolveVariables(template, context) ==
  IF ~Includes(template, <<"{">>) THEN template
  ELSE ReplaceVars(template, 1, context)

\* interpolate's early return on a cache hit: if (cached !== undefined)
ServedFromCache(m, template, context, useCache) ==
  Len(template) > 0 /\ useCache /\ MapHas(m, generateKey(template, context))

\* the three steps with the variables resolved first
ResolveVariablesFirst(template, context, translations) ==
  resolvePlurals(resolveReferences(resolveVariables(template, context), translations),
                 context)

\* steps 1 to 3 of interpolate
Resolve(template, context, translations) ==
  resolveVariables(resolvePlurals(resolveReferences(template, translations), context),
                   context)

\* interpolate reading and writing the cache whatever useCache says
interpolateOnCacheAlways(m, maxSize, template, context, translations, useCache) ==
  IF Len(template) = 0 THEN [value |-> template, cache |-> m]
  ELSE IF MapHas(m, generateKey(template, context))
  THEN [value |-> MapGet(m, generateKey(template, context)),
        cache |-> CacheAfterGet(m, template, context)]
  ELSE [value |-> Resolve(template, context, translations),
        cache |-> CacheSet(m, maxSize, template, context,
                           Resolve(template, context, translations))]

\* interpolate(template, context, translations, useCache) on a cache m built
\* as new InterpolationCache(maxSize): the string returned and the cache left
interpolateOn(m, maxSize, template, context, translations, useCache) ==
  IF Len(template) = 0 THEN [value |-> template, cache |-> m]
  ELSE IF useCache /\ MapHas(m, generateKey(template, context))
  THEN [value |-> MapGet(m, generateKey(template, context)),
        cache |-> CacheAfterGet(m, template, context)]
  ELSE LET result == Resolve(template, context, translations)
       IN [value |-> result,
           cache |-> IF useCache
                     THEN CacheSet(m, maxSize, template, context, result)
                     ELSE m]

\* interpolate(template, context, translations, useCache) on globalCache m
interpolate(m, template, context, translations, useCache) ==
  interpolateOn(m, GLOBAL_CACHE_MAX_SIZE, template, context, translations, useCache)

clearInterpolationCache == <<>>

----------------------------------------------------------------------------
(* loader.ts: storage and the loader's private methods *)

BASE_LANGUAGE == <<"e","n">>

\* STORAGE_KEYS
REMOTE_CACHE(lang) == <<"@","m","f","c","s","_","r","e","m","o","t","e","_">> \o lang
REMOTE_TIMESTAMP(lang) ==
  <<"@","m","f","c","s","_","r","e","m","o","t","e","_","t","s","_">> \o lang
LOCAL_PATCH(lang) == <<"@","m","f","c","s","_","p","a","t","c","h","_">> \o lang
UNIVERSAL_PATCH ==
  <<"@","m","f","c","s","_","u","n","i","v","e","r","s","a","l","_","p","a","t","c","h">>

\* getItem's null
NoItem == [kind |-> "none", value |-> Null, n |-> 0]

\* StorageAdapter.getItem/setItem/removeItem on the stored content st
getItem(st, key) == st[key]
setItem(st, key, text) == [st EXCEPT ![key] = text]
\* a removeItem that removes nothing
removeItemKept(st, key) == st

removeItem(st, key) == [st EXCEPT ![key] = NoItem]

\* parseInt(text, 10) of a stored timestamp
parseInt(text) == text.n

\* the value of a private method that may throw
Returned(v) == [threw |-> FALSE, value |-> v]
Thrown == [threw |-> TRUE, value |-> Undefined]

\* getCachedRemote; the read throws when its call site is in fails
\* if (cached) { try { return JSON.parse(cached) } catch { return null } }
ParseCached(cached) ==
  IF cached.kind = "json" THEN Returned(JSON_parse(cached)) ELSE Returned(Null)

getCachedRemote(st, cfg, site, fails) ==
  IF site \in fails THEN Thrown
  ELSE ParseCached(getItem(st, REMOTE_CACHE(cfg.language)))

\* a call's outcome together with the storage it leaves
Outcome(threw, value, st) == [threw |-> threw, value |-> value, storage |-> st]

\* the two setItem calls of loadRemoteTranslations and its return
StoreRemote(st, cfg, t, fails, filtered) ==
  IF "setCache" \in fails THEN Outcome(TRUE, Undefined, st)
  ELSE IF "setTimestamp" \in fails
  THEN Outcome(TRUE, Undefined,
               setItem(st, REMOTE_CACHE(cfg.language), JSON_stringify(filtered)))
  ELSE Outcome(FALSE, filtered,
               setItem(setItem(st, REMOTE_CACHE(cfg.language), JSON_stringify(filtered)),
                       REMOTE_TIMESTAMP(cfg.language), NumberText(t)))

\* if (sanitized) { filter, cache, return filtered } return null
CacheSanitized(st, cfg, t, fails, sanitized) ==
  IF ~Truthy(sanitized) THEN Outcome(FALSE, Null, st)
  ELSE StoreRemote(st, cfg, t, fails, filterProtectedNamespaces(sanitized))

\* the fetch and what follows it
FetchRemote(st, cfg, t, fails, response) ==
  IF "fetch" \in fails \/ ~response.ok THEN Outcome(TRUE, Undefined, st)
  ELSE CacheSanitized(st, cfg, t, fails, sanitizePatch(response.body))

\* a freshness check that finds every timestamp stale
IsFreshNever(cachedTimestamp, cfg, t) == FALSE

\* the cache freshness check on the persisted timestamp
IsFresh(cachedTimestamp, cfg, t) ==
  /\ cachedTimestamp.kind = "number"
  /\ t - parseInt(cachedTimestamp) < cfg.cacheDuration

\* return this.getCachedRemote()
ReturnCached(cached, st) == Outcome(cached.threw, cached.value, st)

\* loadRemoteTranslations at time t: what it returns or that it throws, and
\* the storage it leaves.  fails holds the call sites whose I/O throws;
\* response is the fetcher's answer
loadRemoteTranslations(st, cfg, t, fails, response) ==
  IF ~Truthy(cfg.remoteBaseUrl) THEN Outcome(FALSE, Null, st)
  ELSE IF "getTimestamp" \in fails THEN Outcome(TRUE, Undefined, st)
  ELSE IF IsFresh(getItem(st, REMOTE_TIMESTAMP(cfg.language)), cfg, t)
  THEN ReturnCached(getCachedRemote(st, cfg, "getFresh", fails), st)
  ELSE FetchRemote(st, cfg, t, fails, response)

\* if (sanitized) patches.push(filterProtectedNamespaces(sanitized))
PushFiltered(sanitized) ==
  IF Truthy(sanitized) THEN <<filterProtectedNamespaces(sanitized)>> ELSE <<>>

\* if (section) { sanitize it and push it }
PushSection(section) ==
  IF Truthy(section) THEN PushFiltered(sanitizePatch(section)) ELSE <<>>

\* parsed.languages?.[language]
LanguageSection(languages, language) ==
  IF languages.t \in {"undefined", "null"} THEN Undefined ELSE Get(languages, language)

\* the parsed universal document with its languages section pushed first
ParsedUniversalLanguagesFirst(parsed, language) ==
  IF ~validatePatch(parsed).valid THEN <<>>
  ELSE PushSection(LanguageSection(Get(parsed, K_languages), language))
       \o PushSection(Get(parsed, K_universal))

\* the parsed universal document pushed without looking at its validation
ParsedUniversalUnvalidated(parsed, language) ==
  PushSection(Get(parsed, K_universal))
  \o PushSection(LanguageSection(Get(parsed, K_languages), language))

\* what the parsed universal document adds to the patches array
ParsedUniversalPatches(parsed, language) ==
  IF ~validatePatch(parsed).valid THEN <<>>
  ELSE PushSection(Get(parsed, K_universal))
       \o PushSection(LanguageSection(Get(parsed, K_languages), language))

\* what the item persisted under UNIVERSAL_PATCH adds to the patches array
UniversalPatchesOf(universalPatchJson, language) ==
  IF universalPatchJson.kind # "json" THEN <<>>
  ELSE ParsedUniversalPatches(JSON_parse(universalPatchJson), language)

\* the patches array of loadLocalPatches after the universal document
UniversalPatches(st, cfg) ==
  UniversalPatchesOf(getItem(st, UNIVERSAL_PATCH), cfg.language)

\* what the item persisted under LOCAL_PATCH(language) adds
LanguagePatchesOf(langPatchJson) ==
  IF langPatchJson.kind # "json" THEN <<>>
  ELSE PushFiltered(sanitizePatch(JSON_parse(langPatchJson)))

\* the patches the standalone language patch adds
LanguagePatches(st, cfg) == LanguagePatchesOf(getItem(st, LOCAL_PATCH(cfg.language)))

\* the merge that ends loadLocalPatches
MergePatches(patches) ==
  IF Len(patches) = 0 THEN Returned(Null)
  ELSE Returned(ReduceMerge(EmptyObject, patches, 1))

loadLocalPatches(st, cfg, fails) ==
  IF "getUniversal" \in fails \/ "getLanguagePatch" \in fails THEN Thrown
  ELSE MergePatches(UniversalPatches(st, cfg) \o LanguagePatches(st, cfg))

----------------------------------------------------------------------------
(* The environment: the languages, documents and answers the operations *)
(* are called with                                                      *)

MaxTime == 1         \* the clock runs from 0 to MaxTime
MaxOps == 4          \* the loader's operations are called at most MaxOps times
CacheDuration == 1   \* config.cacheDuration, in ticks

L_en == <<"e","n">>
L_pt == <<"p","t">>
Langs == {L_en, L_pt}

N_tier == <<"t","i","e","r">>
N_ui == <<"u","i">>
N_core == <<"c","o","r","e">>

\* { namespace: { key: value } }
Tree1(ns, k, v) == Obj(<<Entry(ns, Obj(<<Entry(k, v)>>))>>)

\* the bundle registered for each language
BundleOf(lang) ==
  IF lang = L_en
  THEN Obj(<<Entry(N_tier, Obj(<<Entry(<<"a">>, Str(<<"1">>)),
                                     Entry(<<"b">>, Obj(<<Entry(<<"x">>, Str(<<"1">>))>>))>>)),
             Entry(N_ui, Obj(<<Entry(<<"a">>, Str(<<"1">>))>>)),
             Entry(N_core, Obj(<<Entry(<<"a">>, Str(<<"1">>))>>))>>)
  ELSE Obj(<<Entry(N_tier, Obj(<<Entry(<<"a">>, Str(<<"2">>))>>)),
             Entry(N_ui, Obj(<<Entry(<<"a">>, Str(<<"2">>))>>))>>)

GoodMetadata ==
  Obj(<<Entry(K_version, Str(<<"1",".","0",".","0">>)), Entry(K_name, Str(<<"m","o","d">>))>>)

\* the documents applyUniversalPatch is called with
UniversalDocs ==
  { \* universal and languages.pt
    Obj(<<Entry(K_metadata, GoodMetadata),
          Entry(K_universal,
                Obj(<<Entry(N_tier,
                            Obj(<<Entry(<<"a">>, Str(<<"4">>)),
                                  Entry(<<"b">>, Obj(<<Entry(<<"x">>, Str(<<"4">>))>>))>>))>>)),
          Entry(K_languages,
                Obj(<<Entry(L_pt,
                            Obj(<<Entry(N_tier,
                                        Obj(<<Entry(<<"a">>, Str(<<"5">>)),
                                              Entry(<<"b">>, Obj(<<Entry(<<"x">>, Str(<<"5">>))>>))>>))>>))>>))>>),
    \* a namespace that is not patchable
    Obj(<<Entry(K_metadata, GoodMetadata),
          Entry(K_universal, Tree1(N_ui, <<"a">>, Str(<<"9">>)))>>) }

\* the trees applyLanguagePatch is called with
LanguagePatchTrees ==
  { \* a leaf the sanitizer changes, and a leaf where other layers hold a tree
    Obj(<<Entry(N_tier, Obj(<<Entry(<<"a">>, Str(<<" ","6","<","b",">">>)),
                              Entry(<<"b">>, Str(<<"6">>))>>))>>),
    \* a namespace that is not patchable
    Tree1(N_core, <<"a">>, Str(<<"9">>)) }

\* the fetcher's answers: response.ok and the value of response.json()
Responses ==
  { [ok |-> TRUE,
     body |-> Obj(<<Entry(N_tier, Obj(<<Entry(<<"a">>, Str(<<"3">>))>>)),
                    Entry(N_ui, Obj(<<Entry(<<"a">>, Str(<<"3">>))>>)),
                    Entry(N_core, Obj(<<Entry(<<"a">>, Str(<<"3">>))>>))>>)],
    [ok |-> FALSE, body |-> Null] }

\* the templates and contexts interpolate is called with
Templates == { <<"{","{","r","e","f",":","t","i","e","r",".","a","}","}">> }
Contexts == { EmptyObject }

StorageKeysOf(lang) == {REMOTE_CACHE(lang), REMOTE_TIMESTAMP(lang), LOCAL_PATCH(lang)}
StorageKeys == {UNIVERSAL_PATCH} \cup UNION {StorageKeysOf(l) : l \in Langs}

\* the I/O call sites of loadTranslations, and the sets of them that fail in
\* one call: none, any one, or one of the remote path with the fallback read
RemoteSites == {"getTimestamp", "getFresh", "fetch", "setCache", "setTimestamp"}
PatchSites == {"getUniversal", "getLanguagePatch"}
LoadFailures ==
  {{}} \cup {{s} : s \in RemoteSites \cup PatchSites}
       \cup {{s, "getFallback"} : s \in RemoteSites}

FailureSets(sites) == SUBSET sites

----------------------------------------------------------------------------
(* loader.ts: the public operations *)

NoValidation == [valid |-> FALSE, errors |-> <<>>, warnings |-> <<>>, threw |-> FALSE]
NoLayers == [remote |-> Undefined, patch |-> Undefined]
NoIo == [fetch |-> "none", storageFailed |-> FALSE]
NoLoaded == [sources |-> <<>>, language |-> <<>>, loadedAt |-> 0]

\* the outcome of an operation: the promise's state, the ValidationResult or
\* LoadedTranslations it resolved with (its data field is the tree kept in
\* lastLoadedData), and (ghost) the remote and patch layers loadTranslations
\* pushed, Undefined for a layer it did not push, and (ghost) what became of
\* its I/O: whether the fetcher was called and answered, and whether a
\* storage call was set to fail
Ret(op, status) ==
  [op |-> op, status |-> status, validation |-> NoValidation, loaded |-> NoLoaded,
   layers |-> NoLayers, io |-> NoIo]

NoClear == [stage |-> "none", language |-> <<>>, overridden |-> {}]

Source(source, priority, version, timestamp) ==
  [source |-> source, priority |-> priority, version |-> version,
   timestamp |-> timestamp]

\* the result of validatePatch, once it was called
NotValidated == [done |-> FALSE, result |-> NoValidation]

\* one more operation is called
Called == ops < MaxOps /\ ops' = ops + 1

Init ==
  /\ config \in {[language |-> l, remoteBaseUrl |-> u, cacheDuration |-> CacheDuration] :
                   l \in Langs, u \in {Undefined, Str(<<"u">>)}}
  /\ bundleTranslations = [l \in Langs |-> Undefined]
  /\ storage = [k \in StorageKeys |-> NoItem]
  /\ lastLoadedData = EmptyObject
  /\ globalCache = <<>>
  /\ now = 0
  /\ ret = Ret("constructor", "resolved")
  /\ cleared = NoClear
  /\ ops = 0
  /\ call = Null
  /\ out = NotValidated

\* registerBundle(language, translations)
RegisterBundle(lang) ==
  /\ Called
  /\ bundleTranslations' = [bundleTranslations EXCEPT ![lang] = BundleOf(lang)]
  /\ ret' = Ret("registerBundle", "resolved")
  /\ cleared' = NoClear
  /\ UNCHANGED <<config, storage, lastLoadedData, globalCache, now, call, out>>

\* setLanguage(language)
SetLanguage(lang) ==
  /\ Called
  /\ config' = [config EXCEPT !.language = lang]
  /\ ret' = Ret("setLanguage", "resolved")
  /\ cleared' = NoClear
  /\ UNCHANGED <<bundleTranslations, storage, lastLoadedData, globalCache, now, call, out>>

\* the slot of a layer: the value pushed, Undefined when nothing is pushed
Slot(v) == IF Truthy(v) THEN v ELSE Undefined

\* the remote slot without the snapshot read of the catch block
RemoteSlotWithoutFallback(remoteTry, fallback) ==
  IF ~Truthy(config.remoteBaseUrl) \/ remoteTry.threw THEN Undefined
  ELSE Slot(remoteTry.value)

\* the remote slot: the value loadRemoteTranslations returned or, when it
\* threw, the snapshot read in the catch block
RemoteSlot(remoteTry, fallback) ==
  IF ~Truthy(config.remoteBaseUrl) THEN Undefined
  ELSE IF ~remoteTry.threw THEN Slot(remoteTry.value)
  ELSE IF ~fallback.threw THEN Slot(fallback.value)
  ELSE Undefined

PatchSlot(patchTry) == IF patchTry.threw THEN Undefined ELSE Slot(patchTry.value)

LayersWith(remoteTry, fallback, patchTry) ==
  [rejected |-> Truthy(config.remoteBaseUrl) /\ remoteTry.threw /\ fallback.threw,
   storage |-> remoteTry.storage,
   base |-> Slot(bundleTranslations[BASE_LANGUAGE]),
   target |-> IF config.language # BASE_LANGUAGE
              THEN Slot(bundleTranslations[config.language]) ELSE Undefined,
   remote |-> RemoteSlot(remoteTry, fallback),
   patch |-> PatchSlot(patchTry)]

LayersAfterRemote(remoteTry, fails) ==
  LayersWith(remoteTry,
             getCachedRemote(remoteTry.storage, config, "getFallback", fails),
             loadLocalPatches(remoteTry.storage, config, fails))

\* the layers array of loadTranslations by slot, whether the promise is
\* rejected and the storage left, for the failing call sites fails and the
\* fetcher's answer
LoadLayers(fails, response) ==
  LayersAfterRemote(loadRemoteTranslations(storage, config, now, fails, response), fails)

\* whether loadRemoteTranslations reaches its fetch, and whether the fetch
\* gives an ok response
FetchCall(st, cfg, t, fails, response) ==
  IF ~Truthy(cfg.remoteBaseUrl) \/ "getTimestamp" \in fails
     \/ IsFresh(getItem(st, REMOTE_TIMESTAMP(cfg.language)), cfg, t)
  THEN "none"
  ELSE IF "fetch" \in fails \/ ~response.ok THEN "failed" ELSE "answered"

\* the I/O of one loadTranslations
IoOf(fails, response) ==
  [fetch |-> FetchCall(storage, config, now, fails, response),
   storageFailed |-> fails \ {"fetch"} # {}]

\* the layers array with the patch layer pushed before the remote layer
LayersPatchBeforeRemote(l) ==
  (IF l.base.t # "undefined" THEN <<l.base>> ELSE <<>>)
  \o (IF l.target.t # "undefined" THEN <<l.target>> ELSE <<>>)
  \o (IF l.patch.t # "undefined" THEN <<l.patch>> ELSE <<>>)
  \o (IF l.remote.t # "undefined" THEN <<l.remote>> ELSE <<>>)

\* the layers array: the slots that were pushed, in the order of the pushes
LayersOf(l) ==
  (IF l.base.t # "undefined" THEN <<l.base>> ELSE <<>>)
  \o (IF l.target.t # "undefined" THEN <<l.target>> ELSE <<>>)
  \o (IF l.remote.t # "undefined" THEN <<l.remote>> ELSE <<>>)
  \o (IF l.patch.t # "undefined" THEN <<l.patch>> ELSE <<>>)

SourcesOf(l, t) ==
  (IF l.base.t # "undefined" THEN <<Source("bundle", 0, "base-en", -1)>> ELSE <<>>)
  \o (IF l.target.t # "undefined" THEN <<Source("bundle", 1, "", -1)>> ELSE <<>>)
  \o (IF l.remote.t # "undefined" THEN <<Source("remote", 2, "", t)>> ELSE <<>>)
  \o (IF l.patch.t # "undefined" THEN <<Source("patch", 3, "", t)>> ELSE <<>>)

\* the end of loadTranslations: the merge, lastLoadedData, the cache, the
\* return
ResolveLoad(l, io, mergedData) ==
  /\ lastLoadedData' = mergedData
  /\ globalCache' = clearInterpolationCache
  /\ ret' = [Ret("loadTranslations", "resolved") EXCEPT
               !.loaded = [sources |-> SourcesOf(l, now),
                           language |-> config.language,
                           loadedAt |-> now],
               !.layers = [remote |-> l.remote, patch |-> l.patch],
               !.io = io]
  /\ cleared' = IF cleared.stage = "cleared"
                THEN [cleared EXCEPT !.stage = "reloaded"]
                ELSE NoClear

\* loadTranslations with the layers l
CompleteLoad(l, io) ==
  /\ storage' = l.storage
  /\ IF l.rejected
     THEN /\ ret' = [Ret("loadTranslations", "rejected") EXCEPT !.io = io]
          /\ cleared' = NoClear
          /\ UNCHANGED <<lastLoadedData, globalCache>>
     ELSE ResolveLoad(l, io, ReduceMerge(EmptyObject, LayersOf(l), 1))
  /\ UNCHANGED <<config, bundleTranslations, now, call, out>>

\* loadTranslations() under one of the failures and one of the fetcher's
\* answers
LoadTranslationsUnder(failures, responses) ==
  /\ Called
  /\ \E fails \in failures, response \in responses :
       CompleteLoad(LoadLayers(fails, response), IoOf(fails, response))

\* loadTranslations()
LoadTranslations == LoadTranslationsUnder(LoadFailures, Responses)

\* an apply that returns the validation without writing
ReturnValidation(op, validation) ==
  /\ ret' = [Ret(op, "resolved") EXCEPT !.validation = validation]
  /\ UNCHANGED storage

\* the setItem of an apply, and its return
Persist(op, key, text, validation, fails) ==
  IF "setPatch" \in fails
  THEN /\ ret' = Ret(op, "rejected")
       /\ UNCHANGED storage
  ELSE /\ storage' = setItem(storage, key, text)
       /\ ret' = [Ret(op, "resolved") EXCEPT !.validation = validation]

\* validatePatch threw: the promise is rejected
RejectApply(op) ==
  /\ ret' = Ret(op, "rejected")
  /\ UNCHANGED storage

\* applyUniversalPatch writing only to an empty slot
ApplyUniversalKeepingFirst(patch, validation, fails) ==
  IF validation.threw THEN RejectApply("applyUniversalPatch")
  ELSE IF ~validation.valid \/ storage[UNIVERSAL_PATCH].kind = "json"
  THEN ReturnValidation("applyUniversalPatch", validation)
  ELSE Persist("applyUniversalPatch", UNIVERSAL_PATCH, JSON_stringify(patch),
               validation, fails)

\* applyUniversalPatch persisting whatever the validation says
ApplyUniversalUnchecked(patch, validation, fails) ==
  Persist("applyUniversalPatch", UNIVERSAL_PATCH, JSON_stringify(patch), validation, fails)

ApplyUniversalValidated(patch, validation, fails) ==
  IF validation.threw THEN RejectApply("applyUniversalPatch")
  ELSE IF ~validation.valid THEN ReturnValidation("applyUniversalPatch", validation)
  ELSE Persist("applyUniversalPatch", UNIVERSAL_PATCH, JSON_stringify(patch),
               validation, fails)

\* applyUniversalPatch(patch)
ApplyUniversalPatch(patch) ==
  /\ Called
  /\ \E fails \in FailureSets({"setPatch"}) :
       ApplyUniversalValidated(patch, validatePatch(patch), fails)
  /\ cleared' = NoClear
  /\ UNCHANGED <<config, bundleTranslations, lastLoadedData, globalCache, now,
                 call, out>>

\* the wrappedPatch of applyLanguagePatch
WrappedPatch(language, patch) ==
  Obj(<<Entry(K_metadata,
              Obj(<<Entry(K_version, Str(<<"1",".","0",".","0">>)),
                    Entry(K_name, Str(language \o <<" ","p","a","t","c","h">>))>>)),
        Entry(K_languages, Obj(<<Entry(language, patch)>>))>>)

SanitizeFailed ==
  [valid |-> FALSE,
   errors |-> <<Error(<<>>, "SANITIZE_FAILED")>>,
   warnings |-> <<>>,
   threw |-> FALSE]

ApplyLanguageSanitized(language, validation, sanitized, fails) ==
  IF ~Truthy(sanitized) THEN ReturnValidation("applyLanguagePatch", SanitizeFailed)
  ELSE Persist("applyLanguagePatch", LOCAL_PATCH(language),
               JSON_stringify(filterProtectedNamespaces(sanitized)), validation, fails)

ApplyLanguageValidated(language, patch, validation, fails) ==
  IF validation.threw THEN RejectApply("applyLanguagePatch")
  ELSE IF ~validation.valid THEN ReturnValidation("applyLanguagePatch", validation)
  ELSE ApplyLanguageSanitized(language, validation, sanitizePatch(patch), fails)

\* applyLanguagePatch(language, patch)
ApplyLanguagePatch(language, patch) ==
  /\ Called
  /\ \E fails \in FailureSets({"setPatch"}) :
       ApplyLanguageValidated(language, patch,
                              validatePatch(WrappedPatch(language, patch)), fails)
  /\ cleared' = NoClear
  /\ UNCHANGED <<config, bundleTranslations, lastLoadedData, globalCache, now,
                 call, out>>

\* the leaf paths of a tree that hold a string, as sequences of keys
RECURSIVE LeafPathsFrom(_, _)
LeafPathsFrom(v, prefix) ==
  IF v.t = "string" THEN {prefix}
  ELSE IF v.t = "object"
  THEN UNION {LeafPathsFrom(v.kv[i].v, Append(prefix, v.kv[i].k)) : i \in 1..Len(v.kv)}
  ELSE {}

LeafPaths(v) == LeafPathsFrom(v, <<>>)

\* the value a tree holds at a path given as a sequence of keys
RECURSIVE At(_, _)
At(v, path) ==
  IF path = <<>> THEN v
  ELSE IF v.t = "object" /\ HasKey(v, Head(path)) THEN At(Get(v, Head(path)), Tail(path))
  ELSE Undefined

\* the patch layer loadTranslations would add now, Undefined when none
PatchLayerNow == PatchSlot(loadLocalPatches(storage, config, {}))

\* clearPatches()
ClearPatches ==
  /\ Called
  /\ \E fails \in FailureSets({"removeUniversal", "removeLanguagePatch"}) :
       /\ IF "removeUniversal" \in fails
          THEN /\ ret' = Ret("clearPatches", "rejected")
               /\ cleared' = NoClear
               /\ UNCHANGED <<storage, globalCache>>
          ELSE IF "removeLanguagePatch" \in fails
          THEN /\ storage' = removeItem(storage, UNIVERSAL_PATCH)
               /\ ret' = Ret("clearPatches", "rejected")
               /\ cleared' = NoClear
               /\ UNCHANGED globalCache
          ELSE /\ storage' = removeItem(removeItem(storage, UNIVERSAL_PATCH),
                                        LOCAL_PATCH(config.language))
               /\ globalCache' = clearInterpolationCache
               /\ ret' = Ret("clearPatches", "resolved")
               /\ cleared' = [stage |-> "cleared", language |-> config.language,
                              overridden |-> LeafPaths(PatchLayerNow)]
       /\ UNCHANGED <<config, bundleTranslations, lastLoadedData, now, call, out>>

\* clearRemoteCache()
ClearRemoteCache ==
  /\ Called
  /\ \E fails \in FailureSets({"removeCache", "removeTimestamp"}) :
       /\ IF "removeCache" \in fails
          THEN /\ ret' = Ret("clearRemoteCache", "rejected")
               /\ UNCHANGED storage
          ELSE IF "removeTimestamp" \in fails
          THEN /\ storage' = removeItem(storage, REMOTE_CACHE(config.language))
               /\ ret' = Ret("clearRemoteCache", "rejected")
          ELSE /\ storage' = removeItem(removeItem(storage, REMOTE_CACHE(config.language)),
                                        REMOTE_TIMESTAMP(config.language))
               /\ ret' = Ret("clearRemoteCache", "resolved")
       /\ cleared' = NoClear
       /\ UNCHANGED <<config, bundleTranslations, lastLoadedData, globalCache, now,
                      call, out>>

\* interpolate(template, context, translations) on the loaded translations
Interpolate(template, context) ==
  /\ Called
  /\ globalCache' = interpolate(globalCache, template, context, lastLoadedData, TRUE).cache
  /\ ret' = Ret("interpolate", "resolved")
  /\ UNCHANGED <<config, bundleTranslations, storage, lastLoadedData, now, cleared,
                 call, out>>

\* Date.now() advances
Tick ==
  /\ now < MaxTime
  /\ now' = now + 1
  /\ UNCHANGED <<config, bundleTranslations, storage, lastLoadedData, globalCache,
                 ret, cleared, ops, call, out>>

Next ==
  \/ \E lang \in Langs : RegisterBundle(lang)
  \/ \E lang \in Langs : SetLanguage(lang)
  \/ LoadTranslations
  \/ \E patch \in UniversalDocs : ApplyUniversalPatch(patch)
  \/ \E lang \in Langs, patch \in LanguagePatchTrees : ApplyLanguagePatch(lang, patch)
  \/ ClearPatches
  \/ ClearRemoteCache
  \/ \E template \in Templates, context \in Contexts : Interpolate(template, context)
  \/ Tick

Spec == Init /\ [][Next]_vars

----------------------------------------------------------------------------
(* validatePatch on its own: every document of PatchDocuments is validated *)

\* a string one character longer than the validator accepts
LongString == [i \in 1..(MAX_VALUE_LENGTH + 1) |-> "a"]

\* the values found under a key of a namespace
LeafValues ==
  { Str(<<"x">>), Str(<<>>), Str(LongString),
    Num(<<"5">>), Bool(<<"t","r","u","e">>), Null, BigInt(<<"5">>),
    Arr(<<Entry(<<"0">>, Str(<<"x">>))>>),
    Arr(<<Entry(<<"0">>, Num(<<"5">>))>>),
    Obj(<<Entry(<<"k">>, Str(<<"x">>))>>),
    Obj(<<Entry(<<"k">>, Null)>>) }

\* the values of `universal` and of `languages.<code>`
Sections ==
  {Tree1(ns, <<"a">>, v) : ns \in {N_tier, N_ui}, v \in LeafValues}
  \cup { Obj(<<Entry(N_tier, Obj(<<Entry(<<"a">>, Str(<<"x">>))>>)),
               Entry(N_ui, Obj(<<Entry(<<"a">>, Str(<<"x">>))>>)),
               Entry(N_core, Obj(<<Entry(<<"a">>, Str(<<"x">>))>>))>>),
         Obj(<<Entry(N_tier, Str(<<"x">>))>>),
         Obj(<<Entry(N_tier, Arr(<<Entry(<<"0">>, Str(<<"x">>))>>))>>),
         EmptyObject,
         Arr(<<>>),
         Str(<<"x">>),
         Null }

\* the values of `metadata`
Metadatas ==
  { GoodMetadata,
    Undefined,
    Obj(<<Entry(K_version, Str(<<"1",".","0">>)), Entry(K_name, Str(<<"m","o","d">>))>>) }

\* the values of `languages`
LanguagesValues ==
  { Obj(<<Entry(L_pt, Tree1(N_tier, <<"a">>, Str(<<"x">>)))>>),
    Obj(<<Entry(L_pt, Tree1(N_ui, <<"a">>, Str(<<"x">>))),
          Entry(L_en, Tree1(N_core, <<"a">>, Num(<<"5">>)))>>),
    Obj(<<Entry(L_pt, Tree1(N_tier, <<"a">>, Null))>>),
    Str(<<"x">>) }

\* { metadata, universal, languages }, a member left out when undefined
Document(metadata, universal, languages) ==
  Obj((IF metadata.t = "undefined" THEN <<>> ELSE <<Entry(K_metadata, metadata)>>)
      \o (IF universal.t = "undefined" THEN <<>> ELSE <<Entry(K_universal, universal)>>)
      \o (IF languages.t = "undefined" THEN <<>> ELSE <<Entry(K_languages, languages)>>))

PatchDocuments ==
  {Document(m, u, l) : m \in Metadatas, u \in Sections \cup {Undefined},
                       l \in LanguagesValues \cup {Undefined}}
  \cup {Null, Undefined, Str(<<"x">>), Arr(<<>>)}

InitValidate ==
  /\ config = [language |-> L_en, remoteBaseUrl |-> Undefined,
               cacheDuration |-> CacheDuration]
  /\ bundleTranslations = [l \in Langs |-> Undefined]
  /\ storage = [k \in StorageKeys |-> NoItem]
  /\ lastLoadedData = EmptyObject
  /\ globalCache = <<>>
  /\ now = 0
  /\ ret = Ret("constructor", "resolved")
  /\ cleared = NoClear
  /\ ops = 0
  /\ call \in PatchDocuments
  /\ out = NotValidated

\* validatePatch(call)
ValidatePatch ==
  /\ ~out.done
  /\ out' = [done |-> TRUE, result |-> validatePatch(call)]
  /\ UNCHANGED <<loaderVars, call>>

NextValidate == ValidatePatch

SpecValidate == InitValidate /\ [][NextValidate]_vars

----------------------------------------------------------------------------
(* The loader started on a storage that already holds patches: the adapter *)
(* is the application's, and what it holds was written by earlier runs    *)

\* the texts found under UNIVERSAL_PATCH: none, a valid document, a document
\* with a namespace off the allow-list, a document without metadata, and a
\* text that does not parse
StoredUniversal ==
  { NoItem,
    JsonText(Document(GoodMetadata,
                      Obj(<<Entry(N_tier, Obj(<<Entry(<<"a">>, Str(<<"4">>)),
                                                Entry(<<"b">>, Str(<<"4">>))>>))>>),
                      Obj(<<Entry(L_pt, Tree1(N_tier, <<"a">>, Str(<<"5">>)))>>))),
    JsonText(Document(GoodMetadata,
                      Obj(<<Entry(N_tier, Obj(<<Entry(<<"a">>, Str(<<"4">>)),
                                                Entry(<<"b">>, Str(<<"4">>))>>)),
                            Entry(N_ui, Obj(<<Entry(<<"a">>, Str(<<"9">>))>>))>>),
                      Obj(<<Entry(L_pt, Tree1(N_tier, <<"a">>, Str(<<"5">>)))>>))),
    JsonText(Document(Undefined,
                      Tree1(N_tier, <<"b">>, Str(<<"4">>)),
                      Obj(<<Entry(L_pt, Tree1(N_tier, <<"a">>, Str(<<"5">>)))>>))),
    GarbageText }

\* the texts found under LOCAL_PATCH(language)
StoredStandalone == {NoItem, JsonText(Tree1(N_tier, <<"a">>, Str(<<"6">>)))}

InitStored ==
  /\ config \in {[language |-> l, remoteBaseUrl |-> u, cacheDuration |-> CacheDuration] :
                   l \in Langs, u \in {Undefined, Str(<<"u">>)}}
  /\ bundleTranslations = [l \in Langs |-> Undefined]
  /\ storage \in {[k \in StorageKeys |->
                     IF k = UNIVERSAL_PATCH THEN u
                     ELSE IF k = LOCAL_PATCH(L_pt) THEN s
                     ELSE NoItem] : u \in StoredUniversal, s \in StoredStandalone}
  /\ lastLoadedData = EmptyObject
  /\ globalCache = <<>>
  /\ now = 0
  /\ ret = Ret("constructor", "resolved")
  /\ cleared = NoClear
  /\ ops = 0
  /\ call = Null
  /\ out = NotValidated

NextStored ==
  \/ \E lang \in Langs : RegisterBundle(lang)
  \/ \E lang \in Langs : SetLanguage(lang)
  \/ LoadTranslations

SpecStored == InitStored /\ [][NextStored]_vars

----------------------------------------------------------------------------
(* deepMerge on its own: one call on a base and up to MaxSources sources *)

MaxSources == 3

\* the trees deepMerge is called with: leaves, trees over leaves and leaves
\* over trees at the same key, arrays, null and undefined members
MergeTrees ==
  { EmptyObject,
    Obj(<<Entry(<<"a">>, Str(<<"1">>))>>),
    Obj(<<Entry(<<"a">>, Obj(<<Entry(<<"x">>, Str(<<"1">>))>>))>>),
    Obj(<<Entry(<<"a">>, Obj(<<Entry(<<"x">>, Str(<<"2">>)),
                               Entry(<<"y">>, Obj(<<Entry(<<"z">>, Str(<<"2">>))>>))>>)),
          Entry(<<"b">>, Str(<<"2">>))>>),
    Obj(<<Entry(<<"a">>, Undefined),
          Entry(<<"b">>, Obj(<<Entry(<<"x">>, Str(<<"3">>))>>))>>),
    Obj(<<Entry(<<"a">>, Arr(<<Entry(<<"0">>, Str(<<"1">>)),
                               Entry(<<"1">>, Str(<<"2">>))>>))>>),
    Obj(<<Entry(<<"a">>, Arr(<<Entry(<<"0">>, Str(<<"3">>))>>))>>),
    Obj(<<Entry(<<"b">>, Null),
          Entry(<<"a">>, Obj(<<Entry(<<"y">>, Str(<<"4">>))>>))>>) }

\* the sources: trees, and arguments that are no trees
MergeSourceValues == MergeTrees \cup {Null, Arr(<<Entry(<<"0">>, Str(<<"1">>))>>)}

SourceLists == UNION {[1..n -> MergeSourceValues] : n \in 0..MaxSources}

NotMerged == [done |-> FALSE, result |-> Undefined, returnsTarget |-> FALSE]

InitMerge ==
  /\ config = [language |-> L_en, remoteBaseUrl |-> Undefined,
               cacheDuration |-> CacheDuration]
  /\ bundleTranslations = [l \in Langs |-> Undefined]
  /\ storage = [k \in StorageKeys |-> NoItem]
  /\ lastLoadedData = EmptyObject
  /\ globalCache = <<>>
  /\ now = 0
  /\ ret = Ret("constructor", "resolved")
  /\ cleared = NoClear
  /\ ops = 0
  /\ call \in {[target |-> target, sources |-> sources] :
                 target \in MergeTrees, sources \in SourceLists}
  /\ out = NotMerged

\* deepMerge(call.target, ...call.sources)
DeepMergeCall ==
  /\ ~out.done
  /\ out' = [done |-> TRUE,
             result |-> DeepMerge(call.target, call.sources),
             returnsTarget |-> ReturnsTarget(call.target, call.sources)]
  /\ UNCHANGED <<loaderVars, call>>

NextMerge == DeepMergeCall

SpecMerge == InitMerge /\ [][NextMerge]_vars

----------------------------------------------------------------------------
(* interpolate called on its own: SpecInterpolate *)

MaxCalls == 3

\* a template is written from parts: literal text, and {{ref:path}}
\* placeholders whose dotted path joins the part's keys
Lit(text) == [ref |-> FALSE, text |-> text, keys |-> <<>>]
RefTo(keys) == [ref |-> TRUE, text |-> <<>>, keys |-> keys]

RECURSIVE PathOf(_, _)
PathOf(keys, i) ==
  IF i > Len(keys) THEN <<>>
  ELSE (IF i > 1 THEN <<".">> ELSE <<>>) \o keys[i] \o PathOf(keys, i + 1)

PlaceholderOf(part) ==
  IF part.ref THEN <<"{","{","r","e","f",":">> \o PathOf(part.keys, 1) \o <<"}","}">>
  ELSE part.text

RECURSIVE TemplateOf(_, _)
TemplateOf(parts, i) ==
  IF i > Len(parts) THEN <<>> ELSE PlaceholderOf(parts[i]) \o TemplateOf(parts, i + 1)

K_tier == <<"t","i","e","r">>

\* the templates of the calls: the empty template, a lone reference,
\* references between literal text, a reference to a tree and to a key that
\* may be missing, a variable placeholder beside a reference, references to
\* text that holds a reference or a plural placeholder, and a lone variable
TemplateParts ==
  { <<>>,
    <<RefTo(<<K_tier, <<"a">>>>)>>,
    <<Lit(<<"W"," ">>), RefTo(<<K_tier, <<"a">>>>), Lit(<<"!">>)>>,
    <<RefTo(<<K_tier>>), RefTo(<<K_tier, <<"b">>>>)>>,
    <<Lit(<<"{","n","}">>), RefTo(<<K_tier, <<"c">>>>)>>,
    <<RefTo(<<K_tier, <<"d">>>>)>>,
    <<RefTo(<<K_tier, <<"p">>>>)>>,
    <<Lit(<<"{","v","}">>)>> }

RefToTierA == <<"{","{","r","e","f",":","t","i","e","r",".","a","}","}">>
PluralOfN == <<"{","{","p","l","u","r","a","l",":","n","|","x","|","y","}","}">>

\* the trees passed as translations: the same paths lead to different
\* strings, to a number, to no value, and to strings holding a variable, a
\* reference, and a plural placeholder before a variable
TreeOne ==
  Obj(<<Entry(K_tier, Obj(<<Entry(<<"a">>, Str(<<"C","L">>)),
                            Entry(<<"c">>, Str(<<"{","n","}">>)),
                            Entry(<<"d">>, Str(RefToTierA)),
                            Entry(<<"p">>, Str(PluralOfN \o <<"{","n","}">>))>>))>>)
TreeTwo ==
  Obj(<<Entry(K_tier, Obj(<<Entry(<<"a">>, Str(<<"E","L">>)),
                            Entry(<<"b">>, Num(<<"5">>))>>))>>)
InterpolateTrees == {TreeOne, TreeTwo}

\* the contexts: none, and a count given as a number and as a string beside
\* a value that holds a reference
InterpolateContexts ==
  { EmptyObject,
    Obj(<<Entry(<<"n">>, Num(<<"2">>)), Entry(<<"v">>, Str(RefToTierA))>>),
    Obj(<<Entry(<<"n">>, Str(<<"2">>)), Entry(<<"v">>, Str(RefToTierA))>>) }

NotInterpolated ==
  [done |-> FALSE, value |-> <<>>, served |-> FALSE, sizeBefore |-> 0,
   stored |-> <<>>, calls |-> 0, trees |-> {}]

InitInterpolate ==
  /\ config = [language |-> L_en, remoteBaseUrl |-> Undefined,
               cacheDuration |-> CacheDuration]
  /\ bundleTranslations = [l \in Langs |-> Undefined]
  /\ storage = [k \in StorageKeys |-> NoItem]
  /\ lastLoadedData = EmptyObject
  /\ globalCache = <<>>
  /\ now = 0
  /\ ret = Ret("constructor", "resolved")
  /\ cleared = NoClear
  /\ ops = 0
  /\ call = [parts |-> <<>>, template |-> <<>>, context |-> EmptyObject,
             translations |-> EmptyObject, useCache |-> TRUE]
  /\ out = NotInterpolated

\* the calls made with the cache enabled since it was cleared last, with the
\* string each returned
StoredAfter(stored, template, context, useCache, value) ==
  IF useCache /\ Len(template) > 0
  THEN Append(stored, [template |-> template, context |-> context, value |-> value])
  ELSE stored

\* interpolate(template, context, translations, useCache) on globalCache
InterpolateCall(parts, context, translations, useCache) ==
  /\ out.calls < MaxCalls
  /\ globalCache' = interpolate(globalCache, TemplateOf(parts, 1), context,
                                translations, useCache).cache
  /\ call' = [parts |-> parts, template |-> TemplateOf(parts, 1),
              context |-> context, translations |-> translations,
              useCache |-> useCache]
  /\ out' = [done |-> TRUE,
             value |-> interpolate(globalCache, TemplateOf(parts, 1), context,
                                   translations, useCache).value,
             served |-> ServedFromCache(globalCache, TemplateOf(parts, 1),
                                        context, useCache),
             sizeBefore |-> Len(globalCache),
             stored |-> StoredAfter(out.stored, TemplateOf(parts, 1), context, useCache,
                                    interpolate(globalCache, TemplateOf(parts, 1),
                                                context, translations, useCache).value),
             calls |-> out.calls + 1,
             trees |-> out.trees \cup {translations}]
  /\ UNCHANGED <<config, bundleTranslations, storage, lastLoadedData, now, ret,
                 cleared, ops>>

\* clearInterpolationCache()
ClearInterpolationCacheCall ==
  /\ out.done
  /\ Len(globalCache) > 0
  /\ globalCache' = clearInterpolationCache
  /\ out' = [out EXCEPT !.stored = <<>>, !.trees = {}]
  /\ UNCHANGED <<config, bundleTranslations, storage, lastLoadedData, now, ret,
                 cleared, ops, call>>

NextInterpolate ==
  \/ \E parts \in TemplateParts, context \in InterpolateContexts,
        translations \in InterpolateTrees, useCache \in BOOLEAN :
       InterpolateCall(parts, context, translations, useCache)
  \/ ClearInterpolationCacheCall

SpecInterpolate == InitInterpolate /\ [][NextInterpolate]_vars

----------------------------------------------------------------------------
(* interpolate on a cache of small capacity: SpecCache *)

CacheCapacity == 2   \* maxSize of the InterpolationCache under the calls
MaxCacheCalls == 5

\* templates without placeholders: each is its own resolved string
CacheTemplates == { <<"a">>, <<"b">>, <<"c">> }

NotCached == [done |-> FALSE, value |-> <<>>, calls |-> 0, lastUse |-> <<>>]

InitCache ==
  /\ config = [language |-> L_en, remoteBaseUrl |-> Undefined,
               cacheDuration |-> CacheDuration]
  /\ bundleTranslations = [l \in Langs |-> Undefined]
  /\ storage = [k \in StorageKeys |-> NoItem]
  /\ lastLoadedData = EmptyObject
  /\ globalCache = <<>>
  /\ now = 0
  /\ ret = Ret("constructor", "resolved")
  /\ cleared = NoClear
  /\ ops = 0
  /\ call = [template |-> <<>>, context |-> EmptyObject,
             translations |-> EmptyObject, useCache |-> TRUE]
  /\ out = NotCached

\* history: for each key the cache was asked for or given, the number of the
\* call that read or inserted it last
LastUseAfter(lastUse, key, useCache, at) ==
  IF useCache THEN MapSet(lastUse, key, at) ELSE lastUse

\* interpolate(template, {}, {}, useCache) on a cache of CacheCapacity entries
CacheCall(template, useCache) ==
  /\ out.calls < MaxCacheCalls
  /\ globalCache' = interpolateOn(globalCache, CacheCapacity, template, EmptyObject,
                                  EmptyObject, useCache).cache
  /\ call' = [template |-> template, context |-> EmptyObject,
              translations |-> EmptyObject, useCache |-> useCache]
  /\ out' = [done |-> TRUE,
             value |-> interpolateOn(globalCache, CacheCapacity, template, EmptyObject,
                                     EmptyObject, useCache).value,
             calls |-> out.calls + 1,
             lastUse |-> LastUseAfter(out.lastUse, generateKey(template, EmptyObject),
                                      useCache, out.calls + 1)]
  /\ UNCHANGED <<config, bundleTranslations, storage, lastLoadedData, now, ret,
                 cleared, ops>>

NextCache == \E template \in CacheTemplates, useCache \in BOOLEAN :
               CacheCall(template, useCache)

SpecCache == InitCache /\ [][NextCache]_vars

----------------------------------------------------------------------------
(* the loader under successive universal patches: SpecReplace *)

\* the documents applyUniversalPatch is called with, one after another: they
\* define different leaves, the same leaf, and a leaf under a namespace that
\* is not patchable
ReplaceDocs ==
  { Obj(<<Entry(K_metadata, GoodMetadata),
          Entry(K_universal,
                Obj(<<Entry(N_tier, Obj(<<Entry(<<"a">>, Str(<<"4">>)),
                                          Entry(<<"d">>, Str(<<"4">>))>>))>>)),
          Entry(K_languages,
                Obj(<<Entry(L_pt, Tree1(N_tier, <<"e">>, Str(<<"5">>)))>>))>>),
    Obj(<<Entry(K_metadata, GoodMetadata),
          Entry(K_universal, Tree1(N_tier, <<"a">>, Str(<<"7">>)))>>),
    Obj(<<Entry(K_metadata, GoodMetadata),
          Entry(K_languages,
                Obj(<<Entry(L_pt, Tree1(N_tier, <<"f">>, Str(<<"8">>)))>>))>>),
    Obj(<<Entry(K_metadata, GoodMetadata),
          Entry(K_universal, Tree1(N_ui, <<"a">>, Str(<<"9">>)))>>) }

\* history: the documents applyUniversalPatch accepted and persisted, in the
\* order of the calls
NoneApplied == [applied |-> <<>>]

InitReplace ==
  /\ config \in {[language |-> l, remoteBaseUrl |-> Undefined,
                   cacheDuration |-> CacheDuration] : l \in Langs}
  /\ bundleTranslations = [l \in Langs |-> Undefined]
  /\ storage = [k \in StorageKeys |-> NoItem]
  /\ lastLoadedData = EmptyObject
  /\ globalCache = <<>>
  /\ now = 0
  /\ ret = Ret("constructor", "resolved")
  /\ cleared = NoClear
  /\ ops = 0
  /\ call = Null
  /\ out = NoneApplied

AppliedAfter(applied, patch, validation, fails) ==
  IF ~validation.threw /\ validation.valid /\ "setPatch" \notin fails
  THEN Append(applied, patch)
  ELSE applied

\* applyUniversalPatch(patch), with the history of the accepted documents
ApplyUniversalPatchRecorded(patch) ==
  /\ Called
  /\ \E fails \in FailureSets({"setPatch"}) :
       /\ ApplyUniversalValidated(patch, validatePatch(patch), fails)
       /\ out' = [applied |-> AppliedAfter(out.applied, patch, validatePatch(patch), fails)]
  /\ cleared' = NoClear
  /\ UNCHANGED <<config, bundleTranslations, lastLoadedData, globalCache, now, call>>

NextReplace ==
  \/ \E lang \in Langs : RegisterBundle(lang)
  \/ \E patch \in ReplaceDocs : ApplyUniversalPatchRecorded(patch)
  \/ \E lang \in Langs, patch \in LanguagePatchTrees : ApplyLanguagePatch(lang, patch)
  \/ LoadTranslations

SpecReplace == InitReplace /\ [][NextReplace]_vars

----------------------------------------------------------------------------
(* loadTranslations suspended at its awaits: SpecAsync *)

\* Each action below is one stretch of loadTranslations between two awaits.
\* A storage call takes effect when it is called, as MemoryStorage's methods
\* do, and the caller resumes in a later step; what the loader reads from
\* this.config it reads in the stretch that runs the statement.  The awaits
\* of fetch and of response.json() are one step: nothing is read or written
\* between them.

MaxLoads == 2

IdleLoad ==
  [pc |-> "idle", language |-> <<>>, order |-> 0,
   base |-> Undefined, target |-> Undefined, remote |-> Undefined,
   read |-> NoItem, filtered |-> Undefined, patches |-> <<>>,
   cacheLanguage |-> <<>>, patchLanguage |-> <<>>, remoteLanguage |-> <<>>,
   sectionPushed |-> FALSE]

NoResult ==
  [done |-> FALSE, data |-> Undefined, language |-> <<>>, order |-> 0,
   layerLanguages |-> {}]

InitAsync ==
  /\ config \in {[language |-> l, remoteBaseUrl |-> u, cacheDuration |-> CacheDuration] :
                   l \in Langs, u \in {Undefined, Str(<<"u">>)}}
  /\ bundleTranslations = [l \in Langs |-> BundleOf(l)]
  /\ storage = [k \in StorageKeys |-> NoItem]
  /\ lastLoadedData = EmptyObject
  /\ globalCache = <<>>
  /\ now = 0
  /\ ret = Ret("registerBundle", "resolved")
  /\ cleared = NoClear
  /\ ops = 0
  /\ call = [id \in 1..MaxLoads |-> IdleLoad]
  /\ out = [started |-> 0, results |-> [id \in 1..MaxLoads |-> NoResult]]

\* loadLocalPatches up to its first await: the language is read from
\* this.config and getItem(UNIVERSAL_PATCH) is called
StartPatches(l, cfg, st) ==
  [l EXCEPT !.pc = "universal",
            !.patchLanguage = cfg.language,
            !.read = getItem(st, UNIVERSAL_PATCH)]

\* getCachedRemote up to its await: the language is read from this.config
\* and getItem(REMOTE_CACHE(language)) is called
StartCached(l, pc, cfg, st) ==
  [l EXCEPT !.pc = pc,
            !.cacheLanguage = cfg.language,
            !.read = getItem(st, REMOTE_CACHE(cfg.language))]

\* loadTranslations up to its first await: the bundles are pushed, then
\* loadRemoteTranslations calls getItem(REMOTE_TIMESTAMP(language)) or, with
\* no remote base URL, loadLocalPatches starts
BundlesPushed(cfg, bundles, order) ==
  [IdleLoad EXCEPT !.language = cfg.language,
                   !.order = order,
                   !.base = Slot(bundles[BASE_LANGUAGE]),
                   !.target = IF cfg.language # BASE_LANGUAGE
                              THEN Slot(bundles[cfg.language]) ELSE Undefined]

StartedLoad(l, cfg, st) ==
  IF Truthy(cfg.remoteBaseUrl)
  THEN [l EXCEPT !.pc = "timestamp",
                 !.read = getItem(st, REMOTE_TIMESTAMP(cfg.language))]
  ELSE StartPatches(l, cfg, st)

StartLoad ==
  /\ Called
  /\ out.started < MaxLoads
  /\ call' = [call EXCEPT ![out.started + 1] =
                StartedLoad(BundlesPushed(config, bundleTranslations, out.started + 1),
                            config, storage)]
  /\ out' = [out EXCEPT !.started = out.started + 1]
  /\ UNCHANGED <<config, bundleTranslations, storage, lastLoadedData, globalCache,
                 now, ret, cleared>>

\* after await getItem(REMOTE_TIMESTAMP): the freshness check, then
\* getCachedRemote or the fetch
AfterTimestamp(id) ==
  /\ call[id].pc = "timestamp"
  /\ call' = [call EXCEPT ![id] =
                IF IsFresh(call[id].read, config, now)
                THEN StartCached(call[id], "cachedFresh", config, storage)
                ELSE [call[id] EXCEPT !.pc = "fetch"]]
  /\ UNCHANGED <<loaderVars, out>>

\* after await getItem(REMOTE_CACHE) in getCachedRemote: the snapshot is
\* pushed as the remote layer, and loadLocalPatches starts
CachedPushed(l) ==
  [l EXCEPT !.remote = Slot(ParseCached(l.read).value),
            !.remoteLanguage = l.cacheLanguage]

AfterCached(id) ==
  /\ call[id].pc \in {"cachedFresh", "cachedFallback"}
  /\ call' = [call EXCEPT ![id] = StartPatches(CachedPushed(call[id]), config, storage)]
  /\ UNCHANGED <<loaderVars, out>>

\* after await fetch and await response.json(): an answer that is not ok
\* throws into the catch block, which calls getCachedRemote; a body the
\* sanitizer empties gives no remote layer; otherwise setItem(REMOTE_CACHE) is
\* called for the language loadRemoteTranslations started with
FetchedLoad(l, response, cfg, st) ==
  IF ~response.ok THEN StartCached(l, "cachedFallback", cfg, st)
  ELSE IF ~Truthy(sanitizePatch(response.body)) THEN StartPatches(l, cfg, st)
  ELSE [l EXCEPT !.pc = "setCache",
                 !.filtered = filterProtectedNamespaces(sanitizePatch(response.body))]

FetchedStorage(l, response, st) ==
  IF response.ok /\ Truthy(sanitizePatch(response.body))
  THEN setItem(st, REMOTE_CACHE(l.language),
               JSON_stringify(filterProtectedNamespaces(sanitizePatch(response.body))))
  ELSE st

AfterFetch(id, response) ==
  /\ call[id].pc = "fetch"
  /\ call' = [call EXCEPT ![id] = FetchedLoad(call[id], response, config, storage)]
  /\ storage' = FetchedStorage(call[id], response, storage)
  /\ UNCHANGED <<config, bundleTranslations, lastLoadedData, globalCache, now, ret,
                 cleared, ops, out>>

\* after await setItem(REMOTE_CACHE): setItem(REMOTE_TIMESTAMP) is called
AfterSetCache(id) ==
  /\ call[id].pc = "setCache"
  /\ call' = [call EXCEPT ![id].pc = "setTimestamp"]
  /\ storage' = setItem(storage, REMOTE_TIMESTAMP(call[id].language), NumberText(now))
  /\ UNCHANGED <<config, bundleTranslations, lastLoadedData, globalCache, now, ret,
                 cleared, ops, out>>

\* after await setItem(REMOTE_TIMESTAMP): the filtered answer is pushed as
\* the remote layer, and loadLocalPatches starts
FetchedPushed(l) ==
  [l EXCEPT !.remote = Slot(l.filtered), !.remoteLanguage = l.language]

AfterSetTimestamp(id) ==
  /\ call[id].pc = "setTimestamp"
  /\ call' = [call EXCEPT ![id] = StartPatches(FetchedPushed(call[id]), config, storage)]
  /\ UNCHANGED <<loaderVars, out>>

\* (ghost) the document read held a section of the language that was pushed
SectionPushed(universalPatchJson, language) ==
  /\ universalPatchJson.kind = "json"
  /\ validatePatch(JSON_parse(universalPatchJson)).valid
  /\ PushSection(LanguageSection(Get(JSON_parse(universalPatchJson), K_languages),
                                 language)) # <<>>

\* after await getItem(UNIVERSAL_PATCH): the document's sections are pushed
\* and getItem(LOCAL_PATCH(language)) is called
AfterUniversal(id) ==
  /\ call[id].pc = "universal"
  /\ call' = [call EXCEPT ![id] =
                [call[id] EXCEPT
                   !.pc = "standalone",
                   !.patches = UniversalPatchesOf(call[id].read, call[id].patchLanguage),
                   !.sectionPushed = SectionPushed(call[id].read, call[id].patchLanguage),
                   !.read = getItem(storage, LOCAL_PATCH(call[id].patchLanguage))]]
  /\ UNCHANGED <<loaderVars, out>>

\* the layers of a load whose standalone patch has been read
LayersRead(l) ==
  [base |-> l.base, target |-> l.target, remote |-> l.remote,
   patch |-> PatchSlot(MergePatches(l.patches \o LanguagePatchesOf(l.read)))]

\* (ghost) the languages whose bundle, snapshot or answer, and patches the
\* load merged
LayerLanguages(l) ==
  (IF l.target.t # "undefined" THEN {l.language} ELSE {})
  \cup (IF l.remote.t # "undefined" THEN {l.remoteLanguage} ELSE {})
  \cup (IF l.sectionPushed \/ LanguagePatchesOf(l.read) # <<>>
        THEN {l.patchLanguage} ELSE {})

\* after await getItem(LOCAL_PATCH): the patches are merged and pushed, the
\* layers merged, lastLoadedData set, the interpolation cache cleared, and
\* the promise resolved
AfterStandalone(id) ==
  /\ call[id].pc = "standalone"
  /\ call' = [call EXCEPT ![id].pc = "done"]
  /\ lastLoadedData' = ReduceMerge(EmptyObject, LayersOf(LayersRead(call[id])), 1)
  /\ globalCache' = clearInterpolationCache
  /\ ret' = [Ret("loadTranslations", "resolved") EXCEPT
               !.loaded = [sources |-> SourcesOf(LayersRead(call[id]), now),
                           language |-> call[id].language,
                           loadedAt |-> now],
               !.layers = [remote |-> call[id].remote,
                           patch |-> LayersRead(call[id]).patch]]
  /\ out' = [out EXCEPT !.results[id] =
               [done |-> TRUE,
                data |-> ReduceMerge(EmptyObject, LayersOf(LayersRead(call[id])), 1),
                language |-> call[id].language,
                order |-> call[id].order,
                layerLanguages |-> LayerLanguages(call[id])]]
  /\ UNCHANGED <<config, bundleTranslations, storage, now, cleared, ops>>

NextAsync ==
  \/ StartLoad
  \/ \E id \in 1..MaxLoads : AfterTimestamp(id)
  \/ \E id \in 1..MaxLoads, response \in Responses : AfterFetch(id, response)
  \/ \E id \in 1..MaxLoads : AfterCached(id)
  \/ \E id \in 1..MaxLoads : AfterSetCache(id)
  \/ \E id \in 1..MaxLoads : AfterSetTimestamp(id)
  \/ \E id \in 1..MaxLoads : AfterUniversal(id)
  \/ \E id \in 1..MaxLoads : AfterStandalone(id)
  \/ \E lang \in Langs : SetLanguage(lang)
  \/ \E patch \in UniversalDocs : ApplyUniversalPatch(patch)
  \/ \E lang \in Langs, patch \in LanguagePatchTrees : ApplyLanguagePatch(lang, patch)

SpecAsync == InitAsync /\ [][NextAsync]_vars

----------------------------------------------------------------------------
(* the loader given leaves that are no strings: SpecLeaves *)

\* universal documents whose leaves are a string, null, and an array
LeafDocs ==
  { Obj(<<Entry(K_metadata, GoodMetadata),
          Entry(K_universal, Tree1(N_tier, <<"a">>, Str(<<"4">>)))>>),
    Obj(<<Entry(K_metadata, GoodMetadata),
          Entry(K_universal, Tree1(N_tier, <<"a">>, Null))>>),
    Obj(<<Entry(K_metadata, GoodMetadata),
          Entry(K_universal,
                Tree1(N_tier, <<"c">>, Arr(<<Entry(<<"0">>, Str(<<"x">>))>>)))>>) }

\* the fetcher's answers: bodies whose leaves are a string, a number, and a
\* boolean
LeafResponses ==
  { [ok |-> TRUE, body |-> Tree1(N_tier, <<"a">>, Str(<<"3">>))],
    [ok |-> TRUE, body |-> Tree1(N_tier, <<"a">>, Num(<<"5">>))],
    [ok |-> TRUE, body |-> Tree1(N_tier, <<"d">>, Bool(<<"t","r","u","e">>))] }

NextLeaves ==
  \/ \E lang \in Langs : RegisterBundle(lang)
  \/ \E patch \in LeafDocs : ApplyUniversalPatch(patch)
  \/ LoadTranslationsUnder({{}}, LeafResponses)
  \/ Tick

SpecLeaves == Init /\ [][NextLeaves]_vars

----------------------------------------------------------------------------
(* sanitizeString called on its own: SpecSanitize *)

MaxPieces == 3

\* the pieces the input strings are written from: halves of dangerous
\* patterns, a tag, a tag opener, and plain text
SanitizePieces ==
  { <<"j","a","v","a">>, <<"s","c","r","i","p","t",":">>, <<"<","b",">">>,
    <<"<","i","f","r">>, <<"a","m","e">>, <<"x"," ">> }

RECURSIVE Concat(_, _)
Concat(pieces, i) ==
  IF i > Len(pieces) THEN <<>> ELSE pieces[i] \o Concat(pieces, i + 1)

SanitizeInputs ==
  {Concat(pieces, 1) : pieces \in UNION {[1..n -> SanitizePieces] : n \in 0..MaxPieces}}

NotSanitized == [done |-> FALSE, result |-> <<>>]

InitSanitize ==
  /\ config = [language |-> L_en, remoteBaseUrl |-> Undefined,
               cacheDuration |-> CacheDuration]
  /\ bundleTranslations = [l \in Langs |-> Undefined]
  /\ storage = [k \in StorageKeys |-> NoItem]
  /\ lastLoadedData = EmptyObject
  /\ globalCache = <<>>
  /\ now = 0
  /\ ret = Ret("constructor", "resolved")
  /\ cleared = NoClear
  /\ ops = 0
  /\ call \in SanitizeInputs
  /\ out = NotSanitized

\* sanitizeString(call)
SanitizeStringCall ==
  /\ ~out.done
  /\ out' = [done |-> TRUE, result |-> sanitizeString(call, MAX_STRING_LENGTH)]
  /\ UNCHANGED <<loaderVars, call>>

NextSanitize == SanitizeStringCall

SpecSanitize == InitSanitize /\ [][NextSanitize]_vars

----------------------------------------------------------------------------
(* The loader's claims, on Spec *)

\* the operation that completed last is a loadTranslations that returned
LoadResolved == ret.op = "loadTranslations" /\ ret.status = "resolved"

\* the bundle layers of the load that returned last
BaseLayer == Slot(bundleTranslations[BASE_LANGUAGE])
TargetLayer ==
  IF ret.loaded.language # BASE_LANGUAGE
  THEN Slot(bundleTranslations[ret.loaded.language]) ELSE Undefined

\* the present layers of the load that returned last, lowest priority first
PresentLayers ==
  SelectSeq(<<BaseLayer, TargetLayer, ret.layers.remote, ret.layers.patch>>,
            LAMBDA v : v.t # "undefined")

\* the result of merging the registered bundles alone
BundlesOnly ==
  ReduceMerge(EmptyObject,
              SelectSeq(<<BaseLayer, TargetLayer>>, LAMBDA v : v.t # "undefined"), 1)

TopLevelKeys(v) == {v.kv[i].k : i \in 1..Len(v.kv)}

\* C1 as stated: after any sequence of operations, every top-level namespace
\* of the merged tree that is not on the patchable allow-list holds exactly
\* the value obtained by merging the registered bundles alone; no remote layer
\* and no patch layer adds or changes it.
C1_ProtectedNamespacesImmutable ==
  LoadResolved =>
    \A ns \in TopLevelKeys(lastLoadedData) \cup TopLevelKeys(BundlesOnly) :
      ns \notin PATCHABLE_NAMESPACES
        => Get(lastLoadedData, ns) = Get(BundlesOnly, ns)

\* the tree holds a leaf at a proper prefix of the path
LeafAtPrefix(v, path) ==
  \E n \in 1..(Len(path) - 1) : At(v, SubSeq(path, 1, n)).t = "string"

\* the layer holds a leaf at a proper prefix of the path or a tree at the path
Covers(v, path) == LeafAtPrefix(v, path) \/ At(v, path).t = "object"

\* the paths at which some present layer holds a leaf
LayerLeafPaths == UNION {LeafPaths(PresentLayers[i]) : i \in 1..Len(PresentLayers)}

\* the highest-priority present layer that holds a leaf at the path
HighestLeaf(path) ==
  CHOOSE i \in 1..Len(PresentLayers) :
    /\ At(PresentLayers[i], path).t = "string"
    /\ \A j \in (i + 1)..Len(PresentLayers) : At(PresentLayers[j], path).t # "string"

\* C2 as stated: for every leaf path, the tree returned by loadTranslations
\* holds the value of the highest-priority present layer that defines that
\* path (base bundle < target bundle < remote content < local patches, absent
\* layers skipped, no target bundle when the active language is the base
\* language).
C2_AsStated ==
  LoadResolved =>
    \A path \in LayerLeafPaths :
      At(lastLoadedData, path) = At(PresentLayers[HighestLeaf(path)], path)

\* C2, amended: for every leaf path, the tree returned by loadTranslations
\* holds the value of the highest-priority present layer that defines that
\* path, unless a layer of still higher priority holds a leaf at a proper
\* prefix of the path or a tree at the path: then that layer's value replaces
\* the subtree and the returned tree has no leaf at the path.
C2_HighestLayerWins ==
  LoadResolved =>
    \A path \in LayerLeafPaths :
      IF \E j \in (HighestLeaf(path) + 1)..Len(PresentLayers) :
           Covers(PresentLayers[j], path)
      THEN At(lastLoadedData, path).t # "string"
      ELSE At(lastLoadedData, path) = At(PresentLayers[HighestLeaf(path)], path)

\* C2's case: a load that merged all four layers, each holding a leaf at the
\* same path, and returned the patch layer's value there
C2_Witness ==
  /\ LoadResolved
  /\ Len(PresentLayers) = 4
  /\ \E path \in LeafPaths(BaseLayer) :
       /\ \A i \in 1..4 : At(PresentLayers[i], path).t = "string"
       /\ At(BaseLayer, path) # At(ret.layers.patch, path)
       /\ At(ret.layers.remote, path) # At(ret.layers.patch, path)
       /\ At(lastLoadedData, path) = At(ret.layers.patch, path)

\* the persisted universal document and the persisted standalone patch of
\* the language of the load that returned last, Undefined when not persisted
PersistedDocument ==
  IF storage[UNIVERSAL_PATCH].kind = "json"
  THEN JSON_parse(storage[UNIVERSAL_PATCH]) ELSE Undefined
UniversalSection == Get(PersistedDocument, K_universal)
ActiveLanguageSection ==
  Get(Get(PersistedDocument, K_languages), ret.loaded.language)
StandalonePatch ==
  IF storage[LOCAL_PATCH(ret.loaded.language)].kind = "json"
  THEN JSON_parse(storage[LOCAL_PATCH(ret.loaded.language)]) ELSE Undefined

\* the paths at which both sections of the universal document hold a leaf
LeavesOfBothSections == LeafPaths(UniversalSection) \cap LeafPaths(ActiveLanguageSection)

\* C3 as stated: within the local-patch layer, for a leaf defined by the
\* universal section, the languages[activeLanguage] section and the
\* standalone patch, loadTranslations yields the standalone patch's value,
\* and for a leaf defined only by the first two it yields the
\* languages[activeLanguage] value.
C3_AsStated ==
  LoadResolved /\ ret.layers.patch.t # "undefined" =>
    \A path \in LeavesOfBothSections :
      IF At(StandalonePatch, path).t = "string"
      THEN At(lastLoadedData, path) = At(StandalonePatch, path)
      ELSE At(StandalonePatch, path).t = "undefined"
             => At(lastLoadedData, path) = At(ActiveLanguageSection, path)

\* C3, amended: for a leaf defined by all three, loadTranslations yields the
\* standalone patch's value; for a leaf defined only by the first two it
\* yields the languages[activeLanguage] value unless the standalone patch
\* holds a leaf at a proper prefix of the path, which then replaces the
\* subtree and leaves no leaf at the path.
C3_PatchOrder ==
  LoadResolved /\ ret.layers.patch.t # "undefined" =>
    \A path \in LeavesOfBothSections :
      IF At(StandalonePatch, path).t = "string"
      THEN At(lastLoadedData, path) = At(StandalonePatch, path)
      ELSE IF LeafAtPrefix(StandalonePatch, path)
      THEN At(lastLoadedData, path).t = "undefined"
      ELSE At(StandalonePatch, path).t = "undefined"
             => At(lastLoadedData, path) = At(ActiveLanguageSection, path)

\* C3's case: a load with a leaf defined by all three, with three different
\* values, that returned the standalone patch's value
C3_Witness ==
  /\ LoadResolved
  /\ \E path \in LeavesOfBothSections :
       /\ At(StandalonePatch, path).t = "string"
       /\ At(UniversalSection, path) # At(ActiveLanguageSection, path)
       /\ At(ActiveLanguageSection, path) # At(StandalonePatch, path)
       /\ At(lastLoadedData, path) = At(StandalonePatch, path)

\* this step is a call of the named apply operation
ApplyStep(op) == ops' = ops + 1 /\ ret'.op = op

\* the step returned this validation with valid=false and wrote nothing
ReturnedInvalid(validation) ==
  /\ ret'.status = "resolved"
  /\ ret'.validation = validation
  /\ ~ret'.validation.valid
  /\ storage' = storage

\* C4: applyUniversalPatch and applyLanguagePatch validate before persisting:
\* whenever validation reports at least one error the call returns that
\* result with valid=false and storage is left exactly as it was.
C4_ValidateBeforePersist ==
  [][/\ ApplyStep("applyUniversalPatch") =>
          \A patch \in UniversalDocs :
            Len(validatePatch(patch).errors) > 0 /\ ApplyUniversalPatch(patch)
              => ReturnedInvalid(validatePatch(patch))
     /\ ApplyStep("applyLanguagePatch") =>
          \A lang \in Langs, patch \in LanguagePatchTrees :
            /\ Len(validatePatch(WrappedPatch(lang, patch)).errors) > 0
            /\ ApplyLanguagePatch(lang, patch)
            => ReturnedInvalid(validatePatch(WrappedPatch(lang, patch)))]_vars

\* C4's case: an apply returned valid=false while a patch persisted earlier
\* is in storage
C4_Witness ==
  /\ ret.op \in {"applyUniversalPatch", "applyLanguagePatch"}
  /\ ret.status = "resolved"
  /\ Len(ret.validation.errors) > 0
  /\ \/ storage[UNIVERSAL_PATCH].kind = "json"
     \/ \E lang \in Langs : storage[LOCAL_PATCH(lang)].kind = "json"

\* C5 as stated: the interpolation cache is empty at the completion of each
\* of loadTranslations, an accepted applyUniversalPatch, an accepted
\* applyLanguagePatch, and clearPatches.
C5_CacheEmptyAfterChange ==
  /\ ret.status = "resolved"
  /\ \/ ret.op \in {"loadTranslations", "clearPatches"}
     \/ ret.op \in {"applyUniversalPatch", "applyLanguagePatch"} /\ ret.validation.valid
  => globalCache = <<>>

\* C6 as stated: loadTranslations always completes with a result and never
\* fails, whichever storage read, storage write or fetch call fails.
C6_LoadNeverFails == ret.op = "loadTranslations" => ret.status = "resolved"

\* the patch layer loadTranslations would merge with the language set to lang
PatchLayerFor(lang) ==
  PatchSlot(loadLocalPatches(storage, [config EXCEPT !.language = lang], {}))

\* C7 as stated: after clearPatches completes no patch document remains
\* persisted for any language, so for every language L, setLanguage(L)
\* followed by loadTranslations merges no patch content.
C7_ClearRemovesAllPatches ==
  ret.op = "clearPatches" /\ ret.status = "resolved" =>
    \A lang \in Langs :
      /\ storage[LOCAL_PATCH(lang)].kind = "none"
      /\ PatchLayerFor(lang).t = "undefined"

\* the load that returned last is the first one after a clearPatches
Reloaded == LoadResolved /\ cleared.stage = "reloaded"

\* the leaves of the target-language bundle that the patch layer removed by
\* that clearPatches overrode
RestoredPaths ==
  cleared.overridden \cap LeafPaths(Slot(bundleTranslations[cleared.language]))

NoPatchSource ==
  \A i \in 1..Len(ret.loaded.sources) : ret.loaded.sources[i].source # "patch"

\* C8 as stated: if a leaf is defined by the target-language bundle and
\* overridden by a persisted local patch for the active language, then after
\* clearPatches completes the next loadTranslations returns the target
\* bundle's value for that leaf and lists no 'patch' source.
C8_AsStated ==
  Reloaded =>
    /\ NoPatchSource
    /\ \A path \in RestoredPaths :
         At(lastLoadedData, path) = At(bundleTranslations[cleared.language], path)

\* C8, amended: after clearPatches completes, the next loadTranslations lists
\* no 'patch' source and returns for that leaf the value of the highest
\* remaining layer: the remote layer's value when the remote layer it merged
\* defines the leaf (or holds a leaf above it), else the target bundle's.
C8_ClearRestoresLowerLayer ==
  Reloaded =>
    /\ NoPatchSource
    /\ \A path \in RestoredPaths :
         At(lastLoadedData, path) =
           IF At(ret.layers.remote, path).t # "undefined"
              \/ LeafAtPrefix(ret.layers.remote, path)
           THEN At(ret.layers.remote, path)
           ELSE At(bundleTranslations[cleared.language], path)

\* C8's case: a reload after clearPatches that returned the target bundle's
\* value at a leaf the cleared patch had overridden
C8_Witness ==
  /\ Reloaded
  /\ cleared.language # BASE_LANGUAGE
  /\ \E path \in RestoredPaths :
       At(lastLoadedData, path) = At(bundleTranslations[cleared.language], path)

----------------------------------------------------------------------------
(* The validator's claims, on SpecValidate *)

\* result.errors has an entry with this path and code
ReportsError(result, path, code) ==
  \E i \in 1..Len(result.errors) : result.errors[i] = Error(path, code)

\* the sections of a document with the paths the validator names them by:
\* `universal` and every `languages.<code>`
SectionsOf(doc) ==
  (IF HasKey(doc, K_universal)
   THEN {[path |-> K_universal, section |-> Get(doc, K_universal)]} ELSE {})
  \cup {[path |-> K_languages \o <<".">> \o Get(doc, K_languages).kv[i].k,
         section |-> Get(doc, K_languages).kv[i].v] :
          i \in 1..Len(Get(doc, K_languages).kv)}

\* every top-level key of every section that is not on the allow-list is
\* reported as PROTECTED_NAMESPACE and the document is invalid
ProtectedReported(doc, result) ==
  \A sec \in SectionsOf(doc) : \A i \in 1..Len(sec.section.kv) :
    sec.section.kv[i].k \notin PATCHABLE_NAMESPACES
      => /\ ReportsError(result, sec.path \o <<".">> \o sec.section.kv[i].k,
                         "PROTECTED_NAMESPACE")
         /\ ~result.valid

\* v is a key-to-value tree all of whose leaves are strings of at most
\* longest characters
RECURSIVE StringTree(_, _)
StringTree(v, longest) ==
  /\ v.t = "object"
  /\ \A i \in 1..Len(v.kv) :
       \/ v.kv[i].v.t = "string" /\ Len(v.kv[i].v.s) <= longest
       \/ StringTree(v.kv[i].v, longest)

\* the document has a section, every section is a tree of allow-listed
\* namespaces, and every namespace is a tree of strings of at most longest
\* characters
AllowListedStrings(doc, longest) ==
  /\ doc.t = "object"
  /\ SectionsOf(doc) # {}
  /\ HasKey(doc, K_languages) => Get(doc, K_languages).t = "object"
  /\ \A sec \in SectionsOf(doc) :
       /\ sec.section.t = "object"
       /\ \A i \in 1..Len(sec.section.kv) :
            /\ sec.section.kv[i].k \in PATCHABLE_NAMESPACES
            /\ StringTree(sec.section.kv[i].v, longest)

ValidMetadata(doc) == validateMetadata(Get(doc, K_metadata), NoProblems).errors = <<>>

RECURSIVE NestedValues(_, _)
NestedValues(content, basePath) ==
  UNION {{[path |-> basePath \o <<".">> \o content.kv[i].k, value |-> content.kv[i].v]}
         \cup (IF content.kv[i].v.t = "object"
               THEN NestedValues(content.kv[i].v, basePath \o <<".">> \o content.kv[i].k)
               ELSE {}) : i \in 1..Len(content.kv)}

\* the values nested under the allow-listed namespaces of a tree-shaped
\* section of the document
ValuesUnderNamespaces(doc) ==
  UNION {UNION {NestedValues(sec.section.kv[i].v,
                             sec.path \o <<".">> \o sec.section.kv[i].k) :
                  i \in {j \in 1..Len(sec.section.kv) :
                           /\ sec.section.kv[j].k \in PATCHABLE_NAMESPACES
                           /\ sec.section.kv[j].v.t = "object"}} :
           sec \in {s \in SectionsOf(doc) : s.section.t = "object"}}

\* C10 as stated: validatePatch reports INVALID_VALUE_TYPE for every value
\* nested under a namespace that is neither a string nor a nested tree
\* (numbers, booleans, null, arrays), so every leaf of a document that
\* validates is a string of at most 2000 characters.
C10_InvalidValueTypeReported ==
  out.done /\ ~out.result.threw =>
    /\ \A nv \in ValuesUnderNamespaces(call) :
         nv.value.t \notin {"string", "object"}
           => ReportsError(out.result, nv.path, "INVALID_VALUE_TYPE")
    /\ out.result.valid =>
         \A nv \in ValuesUnderNamespaces(call) :
           \/ nv.value.t = "object"
           \/ nv.value.t = "string" /\ Len(nv.value.s) <= MAX_VALUE_LENGTH

\* C11 as stated: validatePatch returns a {valid, errors, warnings} result
\* for every input value without throwing, and leaves its argument unchanged.
C11_ReturnsForEveryInput ==
  [][ValidatePatch => ~out'.result.threw /\ call' = call]_vars

----------------------------------------------------------------------------
(* The loader's claims on its remote layer, on Spec *)

\* the snapshot persisted for the language of the load that returned last,
\* Undefined when there is none
PersistedSnapshot ==
  IF storage[REMOTE_CACHE(ret.loaded.language)].kind = "json"
  THEN Slot(JSON_parse(storage[REMOTE_CACHE(ret.loaded.language)]))
  ELSE Undefined

\* the load that completed last called the fetcher, the fetch failed, and
\* its storage calls succeeded
FetchFailed ==
  ret.op = "loadTranslations" /\ ret.io.fetch = "failed" /\ ~ret.io.storageFailed

LoadStep == ops' = ops + 1 /\ ret'.op = "loadTranslations"

\* a timestamp is persisted for the active language and is younger than
\* cacheDuration
TimestampYoung ==
  /\ storage[REMOTE_TIMESTAMP(config.language)].kind = "number"
  /\ now - storage[REMOTE_TIMESTAMP(config.language)].n < config.cacheDuration

\* the snapshot persisted for the active language, Undefined when none
ActiveSnapshot ==
  IF storage[REMOTE_CACHE(config.language)].kind = "json"
  THEN Slot(JSON_parse(storage[REMOTE_CACHE(config.language)]))
  ELSE Undefined

\* C13: with a remote base location configured, loadTranslations calls the
\* fetcher only when no timestamp is persisted for the active language or the
\* persisted timestamp is at least cacheDuration old; while the timestamp is
\* younger it makes no fetch and (storage working) uses the persisted
\* snapshot as the remote layer.  With no remote base location configured it
\* never fetches.
C13_FetchOnlyWhenStale ==
  [][LoadStep =>
       /\ ret'.io.fetch # "none"
            => Truthy(config.remoteBaseUrl) /\ ~TimestampYoung
       /\ Truthy(config.remoteBaseUrl) /\ TimestampYoung /\ ~ret'.io.storageFailed
            => /\ ret'.io.fetch = "none"
               /\ ret'.status = "resolved"
               /\ ret'.layers.remote = ActiveSnapshot
               /\ storage' = storage]_vars

\* C13's case: a load under a young timestamp that made no fetch and took
\* the persisted snapshot as its remote layer
C13_Witness ==
  /\ LoadResolved
  /\ Truthy(config.remoteBaseUrl)
  /\ TimestampYoung
  /\ ret.io.fetch = "none"
  /\ ~ret.io.storageFailed
  /\ ActiveSnapshot.t = "object"
  /\ ret.layers.remote = ActiveSnapshot

----------------------------------------------------------------------------
(* The loader's claim on a stored universal document, on SpecStored *)

\* the persisted universal document does not parse or fails validation
UniversalDocumentUnusable ==
  \/ storage[UNIVERSAL_PATCH].kind = "garbage"
  \/ /\ storage[UNIVERSAL_PATCH].kind = "json"
     /\ Len(validatePatch(JSON_parse(storage[UNIVERSAL_PATCH])).errors) > 0

\* the patch layer a load for the language merges from a storage that holds
\* no universal document
PatchLayerWithoutUniversal(lang) ==
  PatchSlot(loadLocalPatches(removeItem(storage, UNIVERSAL_PATCH),
                             [config EXCEPT !.language = lang], {}))

\* C14: if the persisted universal document fails validation or cannot be
\* parsed, then (storage working) the load still succeeds, neither its
\* `universal` section nor any `languages` section contributes to the
\* returned tree, and the standalone language-specific patch is still
\* applied: the patch layer is the one a storage without the document gives.
C14_UniversalDocumentAtomic ==
  ret.op = "loadTranslations" /\ ~ret.io.storageFailed /\ UniversalDocumentUnusable =>
    /\ ret.status = "resolved"
    /\ ret.layers.patch = PatchLayerWithoutUniversal(ret.loaded.language)
    /\ lastLoadedData = ReduceMerge(EmptyObject, PresentLayers, 1)

\* C14's case: a load over a persisted document that fails validation with
\* a standalone patch persisted too; the standalone patch's leaf is returned
\* and the document's other leaf is not
C14_Witness ==
  /\ LoadResolved
  /\ ~ret.io.storageFailed
  /\ storage[UNIVERSAL_PATCH].kind = "json"
  /\ UniversalDocumentUnusable
  /\ At(StandalonePatch, <<N_tier, <<"a">>>>) = Str(<<"6">>)
  /\ At(lastLoadedData, <<N_tier, <<"a">>>>) = Str(<<"6">>)
  /\ At(UniversalSection, <<N_tier, <<"b">>>>) = Str(<<"4">>)
  /\ At(lastLoadedData, <<N_tier, <<"b">>>>).t = "undefined"

----------------------------------------------------------------------------
(* deepMerge's claims, on SpecMerge *)

\* C15: merge is idempotent: deepMerge(A, A) equals A for every tree A.
C15_MergeIdempotent ==
  out.done /\ call.sources = <<call.target>> => out.result = call.target

\* C15's case: a tree with nested trees, a leaf and an undefined member
\* merged with itself
C15_Witness ==
  /\ out.done
  /\ call.sources = <<call.target>>
  /\ \E i \in 1..Len(call.target.kv) : call.target.kv[i].v.t = "object"
  /\ \E i \in 1..Len(call.target.kv) : call.target.kv[i].v.t = "undefined"
  /\ out.result = call.target

\* C16: merging several sources in one call equals folding them one at a
\* time: deepMerge(A, B, C) is the same tree, hence has the same value at
\* every leaf, as deepMerge(deepMerge(A, B), C), including when a key is a
\* tree in one input and a leaf in another.
C16_MergeFolds ==
  out.done /\ Len(call.sources) = 2 =>
    out.result = DeepMerge(DeepMerge(call.target, <<call.sources[1]>>),
                           <<call.sources[2]>>)

\* C16's case: a key that is a tree in A, a leaf in B and a tree again in C
C16_Witness ==
  /\ out.done
  /\ Len(call.sources) = 2
  /\ Get(call.target, <<"a">>).t = "object"
  /\ Get(call.sources[1], <<"a">>).t = "string"
  /\ Get(call.sources[2], <<"a">>).t = "object"
  /\ Get(out.result, <<"a">>) = Get(call.sources[2], <<"a">>)

\* C17 as stated: deepMerge is pure: for every call, with any number of
\* sources including none, the base and every source are unchanged afterwards
\* and the returned tree is a new object distinct from the base.
C17_ReturnsNewObject ==
  [][DeepMergeCall => call' = call /\ ~out'.returnsTarget]_vars

KeysOf(v) == {v.kv[i].k : i \in 1..Len(v.kv)}

\* the value a key holds after one source, by the rule: an undefined source
\* value keeps the existing value, two trees are merged by the same rule key
\* by key, and anything else replaces the existing value whole
RECURSIVE DecidedBy(_, _, _)
DecidedBy(result, existing, incoming) ==
  IF incoming.t = "undefined" THEN result = existing
  ELSE IF existing.t = "object" /\ incoming.t = "object"
  THEN /\ result.t = "object"
       /\ KeysOf(result) =
            KeysOf(existing) \cup {k \in KeysOf(incoming) : Get(incoming, k).t # "undefined"}
       /\ \A k \in KeysOf(existing) \cup KeysOf(incoming) :
            DecidedBy(Get(result, k), Get(existing, k), Get(incoming, k))
  ELSE result = incoming

\* the result of deepMerge after the first n sources of the call
MergedAfter(n) == DeepMerge(call.target, SubSeq(call.sources, 1, n))

\* C20: in deepMerge(base, s1..sn) the value at each key is decided source by
\* source: a source value of undefined keeps the existing value, two trees
\* are merged recursively, and anything else (string, array, null, a tree
\* over a leaf or a leaf over a tree) replaces the existing value whole;
\* hence every leaf defined by the last source appears unchanged in the
\* result and arrays are never combined element-wise.
C20_DecidedSourceBySource ==
  out.done =>
    /\ out.result = MergedAfter(Len(call.sources))
    /\ \A n \in 1..Len(call.sources) :
         IF call.sources[n].t = "object"
         THEN DecidedBy(MergedAfter(n), MergedAfter(n - 1), call.sources[n])
         ELSE MergedAfter(n) = MergedAfter(n - 1)
    /\ Len(call.sources) > 0 =>
         /\ \A path \in LeafPaths(call.sources[Len(call.sources)]) :
              At(out.result, path) = At(call.sources[Len(call.sources)], path)
         /\ \A k \in KeysOf(call.sources[Len(call.sources)]) :
              Get(call.sources[Len(call.sources)], k).t = "array"
                => Get(out.result, k) = Get(call.sources[Len(call.sources)], k)

\* C20's case: an array over an array, replaced whole, then kept by a source
\* whose value at that key is undefined and whose tree at another key is new
C20_Witness ==
  /\ out.done
  /\ Len(call.sources) = 2
  /\ Get(call.target, <<"a">>).t = "array"
  /\ Get(call.sources[1], <<"a">>).t = "array"
  /\ Get(call.sources[1], <<"a">>) # Get(call.target, <<"a">>)
  /\ HasKey(call.sources[2], <<"a">>)
  /\ Get(call.sources[2], <<"a">>).t = "undefined"
  /\ Get(out.result, <<"a">>) = Get(call.sources[1], <<"a">>)
  /\ At(out.result, <<<<"b">>, <<"x">>>>) = Str(<<"3">>)

----------------------------------------------------------------------------
(* The interpolation engine's claims, on SpecInterpolate *)

\* the value at the path's keys, walking own members of trees only
RECURSIVE TargetOf(_, _, _)
TargetOf(tree, keys, i) ==
  IF i > Len(keys) THEN tree
  ELSE IF tree.t = "object" /\ \E j \in 1..Len(tree.kv) : tree.kv[j].k = keys[i]
  THEN TargetOf(tree.kv[CHOOSE j \in 1..Len(tree.kv) : tree.kv[j].k = keys[i]].v,
                keys, i + 1)
  ELSE Undefined

\* the text a part stands for under the tree: the string at the path, or the
\* bracketed path
TextOf(part, tree) ==
  IF ~part.ref THEN part.text
  ELSE IF TargetOf(tree, part.keys, 1).t = "string"
  THEN TargetOf(tree, part.keys, 1).s
  ELSE <<"[">> \o PathOf(part.keys, 1) \o <<"]">>

RECURSIVE ReferencesReplaced(_, _, _)
ReferencesReplaced(parts, tree, i) ==
  IF i > Len(parts) THEN <<>>
  ELSE TextOf(parts[i], tree) \o ReferencesReplaced(parts, tree, i + 1)

\* the string the call returns when every reference placeholder stands for
\* the text of the tree passed to the call, the plural and variable steps
\* applied after
ReferencesFromPassedTree ==
  out.value = resolveVariables(
                resolvePlurals(ReferencesReplaced(call.parts, call.translations, 1),
                               call.context),
                call.context)

\* C18 as stated: after every interpolate call each {{ref:path}} placeholder
\* stands replaced by the string at that path in the tree passed to the call,
\* or by "[path]" when the path is missing or leads to no string
C18_AsStated == out.done => ReferencesFromPassedTree

\* C18: after every interpolate call that was not served from the cache (the
\* cache bypassed, or holding no entry for the template and context), each
\* {{ref:path}} placeholder stands replaced by the string at that path in the
\* tree passed to the call, or by "[path]" when the path is missing or leads
\* to no string
C18_ReferencesResolved == out.done /\ ~out.served => ReferencesFromPassedTree

\* a cache-enabled call, not served from a cache that holds other entries, of
\* a template with a reference to a tree and a reference to a number
C18_Witness ==
  /\ out.done /\ ~out.served /\ call.useCache /\ out.sizeBefore > 0
  /\ call.translations = TreeTwo
  /\ \E i \in 1..Len(call.parts) :
       call.parts[i].ref /\ TargetOf(call.translations, call.parts[i].keys, 1).t = "object"
  /\ \E i \in 1..Len(call.parts) :
       call.parts[i].ref /\ TargetOf(call.translations, call.parts[i].keys, 1).t = "number"

\* a step of InterpolateCall
InterpolateStep == out'.calls = out.calls + 1

\* an earlier call since the cache was cleared last had the template and
\* context of the call, with the cache enabled
StoredBefore(stored, template, context) ==
  \E i \in 1..Len(stored) : stored[i].template = template /\ stored[i].context = context

StoredValue(stored, template, context) ==
  stored[CHOOSE i \in 1..Len(stored) :
           stored[i].template = template /\ stored[i].context = context].value

\* C19: an interpolate call with the cache enabled, whose template and
\* context an earlier cache-enabled call had with no clear in between, is
\* served from the cache, returns the string the earlier call returned, and
\* leaves the number of cache entries as it was
C19_SecondCallServed ==
  [][/\ InterpolateStep
     /\ call'.useCache
     /\ StoredBefore(out.stored, call'.template, call'.context)
     => /\ out'.served
        /\ out'.value = StoredValue(out.stored, call'.template, call'.context)
        /\ Len(globalCache') = Len(globalCache)]_vars

\* a third call repeats the first, after a call of another template: the
\* cache holds two entries and the call is served
C19_Witness ==
  /\ out.done /\ out.served /\ out.calls = 3
  /\ Len(globalCache) = 2
  /\ Len(out.stored) = 3
  /\ out.stored[1].template = call.template /\ out.stored[1].context = call.context
  /\ out.stored[2].template # call.template
  /\ out.value = out.stored[1].value
  /\ globalCache[2].k = generateKey(call.template, call.context)

----------------------------------------------------------------------------
(* The cache's claims, on SpecCache *)

CacheKeys(m) == {m[i].k : i \in 1..Len(m)}

\* a step of CacheCall that inserts a key the full cache does not hold
InsertsAtCapacity ==
  /\ out'.calls = out.calls + 1
  /\ call'.useCache
  /\ Len(globalCache) = CacheCapacity
  /\ generateKey(call'.template, call'.context) \notin CacheKeys(globalCache)

\* the key read or inserted longest ago among the keys the cache holds
LeastRecentlyUsed(m, lastUse) ==
  CHOOSE k \in CacheKeys(m) :
    \A other \in CacheKeys(m) : MapGet(lastUse, k) <= MapGet(lastUse, other)

\* C21: after every interpolate call the cache holds no more entries than
\* its capacity, and a call that inserts a new entry into a full cache evicts
\* exactly one entry, the one read or inserted least recently (a hit counts
\* as a read), leaving every other entry in place
C21_EvictsLeastRecent ==
  [][/\ Len(globalCache') <= CacheCapacity
     /\ InsertsAtCapacity
        => /\ Len(globalCache') = CacheCapacity
           /\ CacheKeys(globalCache') =
                (CacheKeys(globalCache) \ {LeastRecentlyUsed(globalCache, out.lastUse)})
                \cup {generateKey(call'.template, call'.context)}]_vars

\* the cache is full after an eviction that spared the entry inserted first,
\* because a hit had moved it to the most-recent end
C21_Witness ==
  /\ out.done /\ out.calls = CacheCapacity + 2 /\ call.useCache
  /\ Len(globalCache) = CacheCapacity
  /\ Len(out.lastUse) = CacheCapacity + 1
  /\ out.lastUse[1].k \in CacheKeys(globalCache)
  /\ out.lastUse[1].v = CacheCapacity + 1
  /\ out.lastUse[2].k \notin CacheKeys(globalCache)

----------------------------------------------------------------------------
(* The claims on the stages and on the cache bypass, on SpecInterpolate *)

\* the call's template is one reference to a string of the tree passed
LoneReferenceToString ==
  /\ Len(call.parts) = 1 /\ call.parts[1].ref
  /\ TargetOf(call.translations, call.parts[1].keys, 1).t = "string"

\* the call's template is one variable placeholder whose value is a string
LoneVariableOfString ==
  /\ call.parts = <<Lit(<<"{","v","}">>)>>
  /\ Get(call.context, <<"v">>).t = "string"

\* C22: after an interpolate call not served from the cache, the text
\* substituted for a {{ref:...}} placeholder has had its plural placeholders,
\* then its variable placeholders, resolved against the context, once each,
\* and its own {{ref:...}} placeholders left as they are; a context value
\* substituted for a variable is left as it is, references included
C22_StagesInOrder ==
  out.done /\ ~out.served
  => /\ LoneReferenceToString
        => out.value =
             resolveVariables(
               resolvePlurals(TargetOf(call.translations, call.parts[1].keys, 1).s,
                              call.context),
               call.context)
     /\ LoneVariableOfString => out.value = Get(call.context, <<"v">>).s

\* a call not served from the cache whose reference stands for a text with
\* a plural and a variable placeholder: both are resolved for the count 2
C22_Witness ==
  /\ out.done /\ ~out.served
  /\ call.parts = <<RefTo(<<K_tier, <<"p">>>>)>>
  /\ call.translations = TreeOne
  /\ Get(call.context, <<"n">>) = Num(<<"2">>)
  /\ out.value = <<"y","2">>

\* the string resolved afresh from the call's template, context and tree
FreshlyResolved(parts, context, translations) ==
  resolveVariables(resolvePlurals(ReferencesReplaced(parts, translations, 1), context),
                   context)

\* C23: an interpolate call with useCache = false leaves the cache's entries
\* and their order as they were, and returns the string resolved afresh from
\* the tree passed, whatever the cache holds for the template and context
C23_BypassLeavesCache ==
  [][InterpolateStep /\ ~call'.useCache
     => /\ globalCache' = globalCache
        /\ out'.value = FreshlyResolved(call'.parts, call'.context, call'.translations)]_vars

\* a call with useCache = false whose template and context have an entry in
\* the cache that holds another string than the call returned, behind a
\* younger entry
C23_Witness ==
  /\ out.done /\ ~call.useCache
  /\ Len(globalCache) = 2
  /\ globalCache[1].k = generateKey(call.template, call.context)
  /\ globalCache[1].v # out.value

\* every call since the cache was cleared last was passed the tree of the
\* call
TreeFixed == out.trees = {call.translations}

\* C25: with the same tree passed to every call since the cache was cleared,
\* an interpolate call with the cache enabled returns the string the call
\* returns with useCache = false
C25_CacheKeepsResults ==
  out.done /\ call.useCache /\ TreeFixed
  => out.value = Resolve(call.template, call.context, call.translations)

----------------------------------------------------------------------------
(* The claim on the universal patch slot, on SpecReplace *)

\* the string leaves a universal document defines for a language
DocumentLeaves(doc, lang) ==
  LeafPaths(At(doc, <<K_universal>>)) \cup LeafPaths(At(doc, <<K_languages, lang>>))

\* the string a universal document gives a path for a language: the language
\* section's over the universal section's
DocumentValue(doc, lang, path) ==
  IF At(doc, <<K_languages, lang>> \o path).t = "string"
  THEN At(doc, <<K_languages, lang>> \o path)
  ELSE At(doc, <<K_universal>> \o path)

\* the standalone patch persisted for a language, Undefined when none
StandaloneOf(st, lang) ==
  IF st[LOCAL_PATCH(lang)].kind = "json" THEN JSON_parse(st[LOCAL_PATCH(lang)])
  ELSE Undefined

\* the path holds in the tree the string that one of the bundles, the
\* standalone patch of the language or the document gives it
HeldByOthers(data, path, doc, lang, bundles, st) ==
  \/ At(data, path) = At(Slot(bundles[BASE_LANGUAGE]), path)
  \/ At(data, path) = At(Slot(bundles[lang]), path)
  \/ At(data, path) = At(StandaloneOf(st, lang), path)
  \/ At(data, path) = DocumentValue(doc, lang, path)

\* a step of applyUniversalPatch
ApplyUniversalStep == ops' = ops + 1 /\ ret'.op = "applyUniversalPatch"

\* a step of loadTranslations that resolved with storage working, two or
\* more universal documents accepted before it
LoadAfterReplace ==
  /\ LoadStep /\ ret'.status = "resolved" /\ ~ret'.io.storageFailed
  /\ Len(out.applied) >= 2

\* C24: applyUniversalPatch leaves every standalone language patch as
\* persisted, and the loadTranslations that follows two or more accepted
\* applyUniversalPatch calls merges the last document only: a leaf an earlier
\* document defined holds a string in the merged tree only when the last
\* document, a bundle or the standalone patch gives it that string
C24_NewerApplyReplaces ==
  [][/\ ApplyUniversalStep
        => \A lang \in Langs : storage'[LOCAL_PATCH(lang)] = storage[LOCAL_PATCH(lang)]
     /\ LoadAfterReplace
        => \A i \in 1..(Len(out.applied) - 1) :
             \A path \in DocumentLeaves(out.applied[i], config.language) :
               At(lastLoadedData', path).t = "string"
               => HeldByOthers(lastLoadedData', path, out.applied[Len(out.applied)],
                               config.language, bundleTranslations, storage)]_vars

\* a load for pt after two accepted documents and a standalone patch: the
\* first document's leaves tier.d and tier.e are gone, the second's tier.f
\* and the standalone patch's tier.b are merged
C24_Witness ==
  /\ LoadResolved /\ ~ret.io.storageFailed
  /\ config.language = L_pt
  /\ Len(out.applied) = 2
  /\ At(out.applied[1], <<K_universal, N_tier, <<"d">>>>).t = "string"
  /\ At(lastLoadedData, <<N_tier, <<"d">>>>).t = "undefined"
  /\ At(lastLoadedData, <<N_tier, <<"e">>>>).t = "undefined"
  /\ At(lastLoadedData, <<N_tier, <<"f">>>>) = Str(<<"8">>)
  /\ storage[LOCAL_PATCH(L_pt)].kind = "json"
  /\ At(lastLoadedData, <<N_tier, <<"b">>>>) = Str(<<"6">>)

----------------------------------------------------------------------------
(* The claim on the remote cache's two keys, on Spec *)

\* C26: in every reachable state a persisted remote-cache timestamp for a
\* language is accompanied by a persisted remote snapshot for that language
C26_TimestampHasSnapshot ==
  \A lang \in Langs :
    storage[REMOTE_TIMESTAMP(lang)].kind # "none"
    => storage[REMOTE_CACHE(lang)].kind # "none"

----------------------------------------------------------------------------
(* The claims on suspended loads, on SpecAsync *)

\* C27: every language-specific layer a completed loadTranslations merged
\* (target bundle, remote answer or snapshot, the universal document's
\* language section, the standalone language patch) is of the language in
\* the `language` field of the call's result
C27_LayersOfResultLanguage ==
  \A id \in 1..MaxLoads :
    out.results[id].done
    => out.results[id].layerLanguages \subseteq {out.results[id].language}

\* every load that was started has completed
AllCompleted ==
  /\ out.started > 0
  /\ \A id \in 1..out.started : out.results[id].done

\* C30: once every started loadTranslations has completed, the tree kept for
\* hasTranslation is the tree returned by the call that started last
C30_LastStartedIsKept ==
  AllCompleted => lastLoadedData = out.results[out.started].data

----------------------------------------------------------------------------
(* The claim on the leaves of the merged tree, on SpecLeaves *)

\* every leaf of the tree is a string
RECURSIVE OnlyStringLeaves(_)
OnlyStringLeaves(v) ==
  \/ v.t = "string"
  \/ v.t = "object" /\ \A i \in 1..Len(v.kv) : OnlyStringLeaves(v.kv[i].v)

\* every registered bundle holds string leaves only
BundlesHoldStrings ==
  \A lang \in Langs :
    bundleTranslations[lang].t = "undefined" \/ OnlyStringLeaves(bundleTranslations[lang])

\* C28: the registered bundles holding string leaves only, every leaf of the
\* tree merged by a loadTranslations that resolved is a string, whatever
\* patches were accepted and whatever the fetcher answered
C28_LeavesAreStrings ==
  LoadResolved /\ BundlesHoldStrings => OnlyStringLeaves(lastLoadedData)

----------------------------------------------------------------------------
(* The claim on sanitizeString, on SpecSanitize *)

\* no dangerous pattern and no HTML tag occurs in the string
FreeOfPatterns(str) ==
  \A i \in 1..Len(str) :
    /\ MatchLen("tag", str, i) = 0
    /\ \A n \in 1..Len(DANGEROUS_PATTERNS) : MatchLen(DANGEROUS_PATTERNS[n], str, i) = 0

\* C29: the result of sanitizeString holds no occurrence of a dangerous
\* pattern and no HTML tag, and sanitizing it again changes nothing
C29_ResultIsClean ==
  out.done
  => /\ FreeOfPatterns(out.result)
     /\ sanitizeString(out.result, MAX_STRING_LENGTH) = out.result

====
